---- MODULE Spec2Model ----
(***************************************************************************)
(* The streaming audio-event pipeline of trackerA11y's audio_pipeline:     *)
(* AudioProcessor (accumulator, queue, workers, session control), the      *)
(* speaker alignment of TranscriptionProcessor and the segment merge of    *)
(* SpeakerDiarizer.                                                        *)
(*                                                                         *)
(* Times are integers counting tenths of a second (the source uses float   *)
(* seconds): 2.0 s is 20, the 0.5 s merge tolerance is 5.  A ratio a/d is  *)
(* kept as its numerator a over the fixed positive denominator d, so that  *)
(* ratio > 0.5 reads 2*a > d.                                              *)
(***************************************************************************)
EXTENDS Integers, Sequences, FiniteSets, TLC

(* ------------------------------------------------------------------ *)
(* Configuration (ProcessingConfig defaults) and model bounds          *)
(* ------------------------------------------------------------------ *)

\* ProcessingConfig.max_concurrent_processing
max_concurrent_processing == 2

\* ProcessingConfig.process_interval = 2.0 s, in tenths of a second
process_interval == 20

\* ProcessingConfig.min_audio_duration = 1.0 s, in tenths of a second
min_audio_duration == 10

\* ProcessingConfig.real_time
real_time == TRUE

\* asyncio.Queue() is built without a maxsize: maxsize = 0, which asyncio
\* reads as "no limit"
maxsize == 0

\* merge_overlapping_segments' default tolerance = 0.5 s
default_tolerance == 5

\* Number of audio chunks the capture thread delivers in one run
MaxChunks == 3

\* Number of session ids (uuid4 values) drawn in one run
MaxSessions == 1

\* Number of PROCESS_AUDIO requests that get as far as the models
MaxRequests == 1

\* Longest list of speaker segments given to merge
MaxMergeSegs == 3

\* Longest list of speaker segments given to alignment
MaxAlignSegs == 2

\* Number of capability tasks of one kind a worker can have left behind
MaxLeftRunning == 1

\* Number of lines the host writes to stdin
MaxLines == 3

\* Longest list of transcription segments given to the event synthesizer
MaxEventSegs == 3

\* A capacity to hold the Dispatch Queue against: the least a bounded queue
\* can have
QueueCapacity == 1

\* Python's None, and the group key _create_audio_events uses for it
None == "None"
unknown == "unknown"

Speakers == {"A", "B"}

(* ------------------------------------------------------------------ *)
(* Sequence helpers                                                    *)
(* ------------------------------------------------------------------ *)

Min2(a, b) == IF a <= b THEN a ELSE b
Max2(a, b) == IF a >= b THEN a ELSE b

RECURSIVE SeqsUpTo(_, _)
\* all sequences over S of length <= n
SeqsUpTo(S, n) ==
    IF n = 0 THEN {<<>>}
    ELSE LET shorter == SeqsUpTo(S, n - 1)
         IN shorter \cup {Append(s, x) : s \in {t \in shorter : Len(t) = n - 1}, x \in S}

\* list.sort(key=lambda x: x.start_time): Python's sort is stable, an
\* element goes after every earlier element whose key is <= its own
InsertByStart(sorted, x) ==
    LET k == Cardinality({i \in 1..Len(sorted) : sorted[i].start_time <= x.start_time})
        \* sorted is ordered, so the elements with key <= x's are a prefix
    IN SubSeq(sorted, 1, k) \o <<x>> \o SubSeq(sorted, k + 1, Len(sorted))

RECURSIVE SortByStartFrom(_, _)
SortByStartFrom(sorted, rest) ==
    IF rest = <<>> THEN sorted
    ELSE SortByStartFrom(InsertByStart(sorted, Head(rest)), Tail(rest))

SortByStart(s) == SortByStartFrom(<<>>, s)

RECURSIVE DictKeysFrom(_, _)
\* keys of a dict filled in one pass over the list: first-appearance order
DictKeysFrom(keys, rest) ==
    IF rest = <<>> THEN keys
    ELSE LET k == Head(rest)
         IN DictKeysFrom(IF \E i \in 1..Len(keys) : keys[i] = k THEN keys
                         ELSE Append(keys, k), Tail(rest))

DictKeys(ks) == DictKeysFrom(<<>>, ks)

\* the intervals [a, b] with a < b over the times T
Intervals(T) == {iv \in T \X T : iv[1] < iv[2]}

RECURSIVE Flatten(_)
Flatten(ss) == IF ss = <<>> THEN <<>> ELSE Head(ss) \o Flatten(Tail(ss))

(* ------------------------------------------------------------------ *)
(* SpeakerDiarizer.merge_overlapping_segments                          *)
(* ------------------------------------------------------------------ *)

\* SpeakerSegment(...) of the merge branch: a new segment, the inputs are
\* left as they are
MergedSegment(speaker_id, current_segment, next_segment) ==
    [speaker_id      |-> speaker_id,
     start_time      |-> current_segment.start_time,
     end_time        |-> Max2(current_segment.end_time, next_segment.end_time),
     confidence      |-> Max2(current_segment.confidence, next_segment.confidence),
     audio_chunk_ids |-> current_segment.audio_chunk_ids \o next_segment.audio_chunk_ids]

\* the mutant of ShouldMerge: a gap of exactly the tolerance is not bridged
ShouldMerge_strict(current_segment, next_segment, tolerance) ==
    next_segment.start_time < current_segment.end_time + tolerance

\* if next_segment.start_time <= current_segment.end_time + tolerance
ShouldMerge(current_segment, next_segment, tolerance) ==
    next_segment.start_time <= current_segment.end_time + tolerance

RECURSIVE MergeFold(_, _, _, _)
\* the loop over speaker_segs[1:] and the final append of current_segment
MergeFold(speaker_id, current_segment, rest, tolerance) ==
    IF rest = <<>> THEN <<current_segment>>
    ELSE LET next_segment == Head(rest)
         IN IF ShouldMerge(current_segment, next_segment, tolerance)
            THEN MergeFold(speaker_id,
                           MergedSegment(speaker_id, current_segment, next_segment),
                           Tail(rest), tolerance)
            ELSE <<current_segment>> \o MergeFold(speaker_id, next_segment, Tail(rest), tolerance)

SegsOfSpeaker(segments, speaker_id) ==
    SelectSeq(segments, LAMBDA seg : seg.speaker_id = speaker_id)

\* one iteration of "for speaker_id, speaker_segs in speaker_segments.items()"
MergeSpeaker(segments, speaker_id, tolerance) ==
    LET speaker_segs == SortByStart(SegsOfSpeaker(segments, speaker_id))
    IN MergeFold(speaker_id, Head(speaker_segs), Tail(speaker_segs), tolerance)

merge_overlapping_segments(segments, tolerance) ==
    IF segments = <<>> THEN <<>>
    ELSE LET speaker_ids == DictKeys([i \in 1..Len(segments) |-> segments[i].speaker_id])
             merged_segments ==
                 Flatten([k \in 1..Len(speaker_ids) |->
                             MergeSpeaker(segments, speaker_ids[k], tolerance)])
         IN SortByStart(merged_segments)

(* ------------------------------------------------------------------ *)
(* TranscriptionProcessor: speaker alignment                           *)
(* ------------------------------------------------------------------ *)

\* TranscriptionSegment.duration / SpeakerSegment.duration
Duration(seg) == seg.end_time - seg.start_time

\* overlap_duration of one speaker segment with the transcript segment, 0
\* when overlap_end > overlap_start fails (the source skips the segment)
OverlapDuration(transcript_seg, speaker_seg) ==
    LET overlap_start == Max2(transcript_seg.start_time, speaker_seg.start_time)
        overlap_end   == Min2(transcript_seg.end_time, speaker_seg.end_time)
    IN IF overlap_end > overlap_start THEN overlap_end - overlap_start ELSE 0

\* the mutant of BetterOverlap: >= lets a later equal candidate win
BetterOverlap_or_equal(overlap, best_overlap) == overlap >= best_overlap

\* if overlap_ratio > best_overlap (both over segment_duration > 0)
BetterOverlap(overlap, best_overlap) == overlap > best_overlap

\* the mutant of Significant: >= 50% is accepted
Significant_or_equal(best_overlap, segment_duration) == 2 * best_overlap >= segment_duration

\* best_overlap > 0.5
Significant(best_overlap, segment_duration) == 2 * best_overlap > segment_duration

RECURSIVE FindBest(_, _, _)
\* the loop of _find_speaker_for_segment; best = <<best_overlap, best_speaker>>
FindBest(transcript_seg, rest, best) ==
    IF rest = <<>> THEN best
    ELSE LET speaker_seg == Head(rest)
             overlap == OverlapDuration(transcript_seg, speaker_seg)
         IN FindBest(transcript_seg, Tail(rest),
                     IF overlap > 0 /\ BetterOverlap(overlap, best[1])
                     THEN <<overlap, speaker_seg.speaker_id>>
                     ELSE best)

find_speaker_for_segment(transcript_seg, speaker_segments) ==
    LET segment_duration == Duration(transcript_seg)
    IN IF segment_duration <= 0 THEN None
       ELSE LET best == FindBest(transcript_seg, speaker_segments, <<0, None>>)
            IN IF Significant(best[1], segment_duration) THEN best[2] ELSE None

\* the mutant of AlignSegment: a segment without a match keeps its old speaker
AlignSegment_keep_old(segment, speaker_segments) ==
    LET speaker_id == find_speaker_for_segment(segment, speaker_segments)
    IN IF speaker_id = None THEN segment ELSE [segment EXCEPT !.speaker_id = speaker_id]

\* updated_segment of align_with_speaker_diarization
AlignSegment(segment, speaker_segments) ==
    [segment EXCEPT !.speaker_id = find_speaker_for_segment(segment, speaker_segments)]

\* align_with_speaker_diarization, on the segments of the TranscriptionResult
align_with_speaker_diarization(transcription_segments, speaker_segments) ==
    [i \in 1..Len(transcription_segments) |->
        AlignSegment(transcription_segments[i], speaker_segments)]

(* ------------------------------------------------------------------ *)
(* AudioProcessor._create_audio_events                                 *)
(* ------------------------------------------------------------------ *)

\* segment.speaker_id or "unknown"
GroupKey(segment) == IF segment.speaker_id = None THEN unknown ELSE segment.speaker_id

RECURSIVE JoinTexts(_)
\* " ".join(seg.text for seg in segments); a text is a sequence of characters
JoinTexts(texts) ==
    IF texts = <<>> THEN <<>>
    ELSE IF Len(texts) = 1 THEN texts[1]
    ELSE texts[1] \o <<" ">> \o JoinTexts(Tail(texts))

RECURSIVE Strip(_)
\* str.strip()
Strip(text) ==
    IF text = <<>> THEN <<>>
    ELSE IF Head(text) = " " THEN Strip(Tail(text))
    ELSE IF text[Len(text)] = " " THEN Strip(SubSeq(text, 1, Len(text) - 1))
    ELSE text

RECURSIVE SumSeq(_)
SumSeq(ns) == IF ns = <<>> THEN 0 ELSE Head(ns) + SumSeq(Tail(ns))

\* np.mean: kept as the exact fraction sum/count
Mean(ns) == [sum |-> SumSeq(ns), count |-> Len(ns)]

\* the mutant of MinStart: the first segment's start stands for the group
MinStart_first(segments) == segments[1].start_time

\* min(seg.start_time for seg in segments)
MinStart(segments) ==
    CHOOSE t \in {segments[i].start_time : i \in 1..Len(segments)} :
        \A i \in 1..Len(segments) : t <= segments[i].start_time

MaxEnd(segments) ==
    CHOOSE t \in {segments[i].end_time : i \in 1..Len(segments)} :
        \A i \in 1..Len(segments) : t >= segments[i].end_time

\* the mutant of RelativeEnd: the end is counted from the start
RelativeEnd_duration(start_time, end_time) == end_time - start_time

\* relative_end = end_time
RelativeEnd(start_time, end_time) == end_time

\* the AudioEvent built for one speaker group (its uuid4 id, the language and
\* the processing time are left out: nothing below reads them).  The
\* timestamp is int((chunk_start_time + relative_start) * 1000000), and a
\* tenth of a second is 100000 microseconds
GroupEvent(speaker_id, transcription_segments, diarization_segments, chunks, sid) ==
    LET segments == SelectSeq(transcription_segments, LAMBDA seg : GroupKey(seg) = speaker_id)
        chunk_start_time == IF chunks # <<>> THEN chunks[1].timestamp ELSE 0
        start_time == MinStart(segments)
        end_time == MaxEnd(segments)
    IN [timestamp        |-> (chunk_start_time + start_time) * 100000,
        session_id       |-> sid,
        text             |-> Strip(JoinTexts([i \in 1..Len(segments) |-> segments[i].text])),
        confidence       |-> Mean([i \in 1..Len(segments) |-> segments[i].confidence]),
        speaker_id       |-> speaker_id,
        speaker_segments |-> SegsOfSpeaker(diarization_segments, speaker_id),
        start_time       |-> start_time,
        end_time         |-> RelativeEnd(start_time, end_time)]

\* the mutant of SortEvents: events.sort is left out
SortEvents_skipped(events) == events

\* events.sort(key=lambda x: x.start_time)
SortEvents(events) == SortByStart(events)

create_audio_events(transcription_segments, diarization_segments, chunks, sid) ==
    LET speaker_ids == DictKeys([i \in 1..Len(transcription_segments) |->
                                    GroupKey(transcription_segments[i])])
        events == [k \in 1..Len(speaker_ids) |->
                      GroupEvent(speaker_ids[k], transcription_segments,
                                 diarization_segments, chunks, sid)]
    IN SortEvents(events)

(* ------------------------------------------------------------------ *)
(* The capabilities: Diarize and Transcribe                            *)
(* ------------------------------------------------------------------ *)

\* A speaker segment as _convert_annotation_to_segments builds it:
\* confidence 1.0 (100 percent), no chunk ids
SpeakerSeg(speaker_id, start_time, end_time) ==
    [speaker_id |-> speaker_id, start_time |-> start_time, end_time |-> end_time,
     confidence |-> 100, audio_chunk_ids |-> <<>>]

\* A transcription segment as _convert_whisper_segments builds it without
\* diarization: speaker_id is None
TransSeg(text, start_time, end_time, confidence) ==
    [text |-> text, start_time |-> start_time, end_time |-> end_time,
     confidence |-> confidence, speaker_id |-> None]

\* What the two opaque models answer for a piece of audio.  1: two speakers,
\* the transcription not in time order; 2: one speaker and a segment nobody
\* matches; 3: silence
Scenarios ==
    << [diar  |-> <<SpeakerSeg("A", 0, 20), SpeakerSeg("B", 20, 40)>>,
        trans |-> <<TransSeg(<<"b">>, 20, 40, 60), TransSeg(<<"a">>, 0, 20, 80)>>],
       [diar  |-> <<SpeakerSeg("A", 0, 30)>>,
        trans |-> <<TransSeg(<<"a">>, 0, 10, 90), TransSeg(<<"b">>, 30, 40, 50)>>],
       [diar  |-> <<>>, trans |-> <<>>] >>

ScenarioIds == 1..Len(Scenarios)

\* the answer depends on the audio only: the window's first chunk decides
ScenarioOf(chunks) == ((chunks[1].timestamp \div 10) % Len(Scenarios)) + 1

(* ------------------------------------------------------------------ *)
(* State                                                               *)
(* ------------------------------------------------------------------ *)

\* f"worker-{i}" for i in range(max_concurrent_processing)
WorkerName == <<"worker-0", "worker-1", "worker-2", "worker-3">>
Workers == {WorkerName[i] : i \in 1..max_concurrent_processing}
\* the task that drives the processor
Callers == {"main"}
\* a second task that calls the processor while a call of the first is
\* suspended; it stays idle where calls do not overlap
AllCallers == Callers \cup {"second"}
Procs == Workers \cup AllCallers

VARIABLES
    is_initialized,        \* AudioProcessor._is_initialized
    is_processing,         \* AudioProcessor._is_processing
    session_id,            \* AudioProcessor._session_id: 0 is "", k the k-th uuid4
    processing_queue,      \* AudioProcessor._processing_queue
    processing_tasks,      \* AudioProcessor._processing_tasks
    audio_buffer,          \* AudioProcessor._audio_buffer
    last_processing_time,  \* AudioProcessor._last_processing_time
    recorder_is_recording, \* AudioRecorder._is_recording: the stream calls back
    chunk_counter,         \* AudioRecorder._chunk_counter
    chunks_made,           \* chunks delivered so far in this run
    worker_pc,             \* where each _processing_worker task stands
    caller_pc,             \* where each caller of the public coroutines stands
    in_cleanup,            \* the caller is inside cleanup()
    job,                   \* the _process_audio_chunks / process_audio_file call of a task
    sink,                  \* how each _process_audio_chunks call ended, with the
                           \* events it handed to _result_callback, in their order
    result,                \* how each caller's last call ended, and what it returned
    merge_pc, merge_in, merge_tolerance, \* merge_overlapping_segments: its arguments,
    merged, remerged,                    \* its result, and its result on that result
    align_pc, align_in, align_speakers,  \* align_with_speaker_diarization: its
    aligned,                             \* arguments and its result
    last_error,            \* IPCHandler._last_error
    total_processed,       \* IPCHandler._total_processed
    status,                \* the last ProcessingStatus sent by _send_status_message
    events_pc, events_transcription,     \* _create_audio_events: its arguments
    events_diarization, events_out,      \* and its result
    left_running,          \* per worker and capability: the tasks of earlier windows
                           \* still running after gather raised on their sibling
    stdin,                 \* the lines the host has written and _message_loop has not read
    lines_written,         \* how many lines the host has written
    loop_pc,               \* where IPCHandler._message_loop is
    is_running,            \* IPCHandler._is_running
    handled,               \* the lines _message_loop has taken up, in that order
    send_tasks,            \* the _send_message tasks _on_audio_event has created
    sent                   \* the messages written to stdout

pipe_vars == <<is_initialized, is_processing, session_id, processing_queue,
               processing_tasks, audio_buffer, last_processing_time,
               recorder_is_recording, chunk_counter, chunks_made, worker_pc,
               caller_pc, in_cleanup, job, sink, result>>

merge_vars == <<merge_pc, merge_in, merge_tolerance, merged, remerged>>

align_vars == <<align_pc, align_in, align_speakers, aligned>>

ipc_vars == <<last_error, total_processed, status>>

task_vars == <<left_running>>

events_vars == <<events_pc, events_transcription, events_diarization, events_out>>

host_vars == <<stdin, lines_written, loop_pc, is_running, handled, send_tasks, sent>>

vars == <<pipe_vars, merge_vars, align_vars, ipc_vars, events_vars, task_vars, host_vars>>

\* time.time() is seconds since 1970: the first chunk is always more than
\* process_interval after _last_processing_time = 0.0
StartClock == process_interval

\* The capture clock: two chunks per process interval
ChunkAdvance == process_interval \div 2

\* time.time() at the n-th chunk of the run
ChunkTime(n) == StartClock + n * ChunkAdvance

\* how much audio a chunk holds, len(data) / sample_rate: half of
\* min_audio_duration, or all of it
Durations == {min_audio_duration \div 2, min_audio_duration}

\* a caller that has not called yet, or whose call has not returned
NoResult == [op |-> "none", outcome |-> "none", events |-> <<>>]

NoJob == [chunks |-> <<>>, scenario |-> 0, diar |-> "idle", trans |-> "idle"]

\* the queue's stop signal: "await self._processing_queue.put(None)"
Sentinel == [none |-> TRUE, chunks |-> <<>>]

QueueItem(chunks) == [none |-> FALSE, chunks |-> chunks]

PipeInit ==
    /\ is_initialized = FALSE
    /\ is_processing = FALSE
    /\ session_id = 0
    /\ processing_queue = <<>>
    /\ processing_tasks = <<>>
    /\ audio_buffer = <<>>
    /\ last_processing_time = 0
    /\ recorder_is_recording = FALSE
    /\ chunk_counter = 0
    /\ chunks_made = 0
    /\ worker_pc = [w \in Workers |-> "none"]
    /\ caller_pc = [c \in AllCallers |-> "idle"]
    /\ in_cleanup = [c \in AllCallers |-> FALSE]
    /\ job = [p \in Procs |-> NoJob]
    /\ sink = {}
    /\ result = [c \in AllCallers |-> NoResult]

MergeIdle ==
    /\ merge_pc = "idle"
    /\ merge_in = <<>>
    /\ merge_tolerance = 0
    /\ merged = <<>>
    /\ remerged = <<>>

AlignIdle ==
    /\ align_pc = "idle"
    /\ align_in = <<>>
    /\ align_speakers = <<>>
    /\ aligned = <<>>

\* no status message has been sent
NoStatus == [sent |-> FALSE, is_recording |-> FALSE, is_processing |-> FALSE,
             queue_size |-> 0, total_processed |-> 0, last_error |-> None]

\* IPCHandler.__init__
IpcIdle ==
    /\ last_error = None
    /\ total_processed = 0
    /\ status = NoStatus

EventsIdle ==
    /\ events_pc = "idle"
    /\ events_transcription = <<>>
    /\ events_diarization = <<>>
    /\ events_out = <<>>

\* no IPCHandler has been started
HostIdle ==
    /\ stdin = <<>>
    /\ lines_written = 0
    /\ loop_pc = "none"
    /\ is_running = FALSE
    /\ handled = <<>>
    /\ send_tasks = <<>>
    /\ sent = <<>>

\* no capability task has been left behind by a gather that raised
TasksIdle == left_running = [w \in Workers |-> [cap \in {"diar", "trans"} |-> 0]]

Init == PipeInit /\ MergeIdle /\ AlignIdle /\ IpcIdle /\ EventsIdle /\ TasksIdle /\ HostIdle

(* ------------------------------------------------------------------ *)
(* Chunk accumulator: AudioRecorder._audio_callback -> _on_audio_chunk *)
(* ------------------------------------------------------------------ *)

\* sum(len(c.data) / c.sample_rate for c in self._audio_buffer)
TotalDuration(buffer) == SumSeq([i \in 1..Len(buffer) |-> buffer[i].duration])

\* asyncio.Queue.full(): never with maxsize <= 0
QueueFull(q) == maxsize > 0 /\ Len(q) >= maxsize

\* the mutant of PutNowait: the item goes to the front of the queue
PutNowait_front(q, item) == IF QueueFull(q) THEN q ELSE <<item>> \o q

\* put_nowait with the QueueFull handler of _on_audio_chunk: a refused
\* item is dropped
PutNowait(q, item) == IF QueueFull(q) THEN q ELSE Append(q, item)

\* the mutant of ShouldDispatch: the length of the buffered audio is not
\* looked at
ShouldDispatch_interval_only(buffer, current_time, last_time) ==
    current_time - last_time >= process_interval

\* the two nested conditions of _on_audio_chunk
ShouldDispatch(buffer, current_time, last_time) ==
    /\ current_time - last_time >= process_interval
    /\ TotalDuration(buffer) >= min_audio_duration

\* the mutant of BufferAfterDispatch: the buffer is copied and not cleared
BufferAfterDispatch_kept(buffer) == buffer

\* buffer_copy = self._audio_buffer.copy(); self._audio_buffer.clear()
BufferAfterDispatch(buffer) == <<>>

on_audio_chunk(chunk) ==
    LET buffer == Append(audio_buffer, chunk)
        current_time == chunk.timestamp
    IN IF ShouldDispatch(buffer, current_time, last_processing_time)
       THEN /\ audio_buffer' = BufferAfterDispatch(buffer)
            /\ last_processing_time' = current_time
            /\ processing_queue' = PutNowait(processing_queue, QueueItem(buffer))
       ELSE /\ audio_buffer' = buffer
            /\ UNCHANGED <<last_processing_time, processing_queue>>

\* The PyAudio thread delivers one chunk.  The thread runs beside the event
\* loop; it is the only writer of the buffer while the stream is open
AudioCallback(duration) ==
    /\ recorder_is_recording
    /\ chunks_made < MaxChunks
    /\ on_audio_chunk([chunk_id |-> chunk_counter,
                       timestamp |-> ChunkTime(chunks_made + 1),
                       duration |-> duration])
    /\ chunk_counter' = chunk_counter + 1
    /\ chunks_made' = chunks_made + 1
    /\ UNCHANGED <<is_initialized, is_processing, session_id, processing_tasks,
                   recorder_is_recording, worker_pc, caller_pc, in_cleanup, job,
                   sink, result>>
    /\ UNCHANGED <<merge_vars, align_vars, ipc_vars, events_vars, task_vars, host_vars>>

(* ------------------------------------------------------------------ *)
(* Session controller pieces that _process_audio_chunks runs into      *)
(* ------------------------------------------------------------------ *)

\* the event loop runs one coroutine at a time: nothing else runs on it
\* while start_recording is between its recorder call and its return
LoopFree == \A c \in AllCallers : caller_pc[c] # "start_recording"

\* the call of caller c returns (outcome "ok") or raises (outcome "error")
Return(c, op, outcome, events) ==
    /\ caller_pc' = [caller_pc EXCEPT ![c] = "idle"]
    /\ result' = [result EXCEPT ![c] = [op |-> op, outcome |-> outcome, events |-> events]]

\* the call of caller c is suspended at pc
Suspend(c, pc) ==
    /\ caller_pc' = [caller_pc EXCEPT ![c] = pc]
    /\ result' = [result EXCEPT ![c] = NoResult]

\* the end of stop_recording(): the task list is cleared, the flag dropped;
\* a stop that cleanup() awaits (cleaning) goes on to cleanup's own gather
StopFinished(c, cleaning) ==
    /\ processing_tasks' = <<>>
    /\ is_processing' = FALSE
    /\ IF cleaning
       THEN Suspend(c, "cleanup")
       ELSE Return(c, "stop_recording", "ok", <<>>)

\* the mutant of StopSignals: one signal for the whole pool
StopSignals_one(tasks) == IF tasks = <<>> THEN <<>> ELSE <<Sentinel>>

\* for _ in range(len(self._processing_tasks)): await queue.put(None)
StopSignals(tasks) == [i \in 1..Len(tasks) |-> Sentinel]

\* stop_recording() from the sentinels to "await asyncio.gather(*tasks)";
\* put never waits on a queue without a limit
SignalAndJoin(c, cleaning) ==
    /\ processing_queue' = processing_queue \o StopSignals(processing_tasks)
    /\ IF processing_tasks # <<>>
       THEN /\ Suspend(c, "stop_join")
            /\ UNCHANGED <<processing_tasks, is_processing>>
       ELSE StopFinished(c, cleaning)

(* ------------------------------------------------------------------ *)
(* _process_audio_chunks and process_audio_file                        *)
(* ------------------------------------------------------------------ *)

\* the two capability tasks are created and the caller waits in gather
StartJob(p, chunks, scenario) ==
    job' = [job EXCEPT ![p] = [chunks |-> chunks, scenario |-> scenario,
                               diar |-> "run", trans |-> "run"]]

OtherCapability(cap) == IF cap = "diar" THEN "trans" ELSE "diar"

\* align_with_speaker_diarization, then _create_audio_events
BatchEvents(chunks, scenario, sid) ==
    LET diarization == Scenarios[scenario].diar
        aligned_transcription ==
            align_with_speaker_diarization(Scenarios[scenario].trans, diarization)
    IN create_audio_events(aligned_transcription, diarization, chunks, sid)

\* what _process_audio_chunks leaves behind: the events handed to
\* _result_callback one by one, which do not name the worker, or the
\* logged failure, which does
Batch(worker_id, j, failed, events) ==
    [worker_id |-> IF failed THEN worker_id ELSE "",
     chunks |-> j.chunks, scenario |-> j.scenario,
     outcome |-> IF failed THEN "failed" ELSE "delivered", events |-> events]

\* the mutant of AfterFailure: the exception ends the worker's loop
AfterFailure_worker_dies(failed) == IF failed THEN "done" ELSE "get"

\* "except Exception" in _process_audio_chunks logs and returns: the
\* worker is back at "await self._processing_queue.get()"
AfterFailure(failed) == "get"

\* gather has returned or raised in the _process_audio_chunks call of
\* worker w
WorkerResume(w, failed) ==
    LET j == job[w]
        events == IF failed THEN <<>> ELSE BatchEvents(j.chunks, j.scenario, session_id)
    IN /\ sink' = sink \cup {Batch(w, j, failed, events)}
       /\ job' = [job EXCEPT ![w] = NoJob]
       /\ worker_pc' = [worker_pc EXCEPT ![w] = AfterFailure(failed)]
       /\ UNCHANGED <<is_initialized, is_processing, session_id, processing_queue,
                      processing_tasks, audio_buffer, last_processing_time,
                      recorder_is_recording, chunk_counter, chunks_made,
                      caller_pc, in_cleanup, result>>

\* gather has returned or raised in the "final" _process_audio_chunks call
\* of stop_recording(): the stop goes on to the sentinels
StopFinalResume(c, failed) ==
    LET j == job[c]
        events == IF failed THEN <<>> ELSE BatchEvents(j.chunks, j.scenario, session_id)
    IN /\ sink' = sink \cup {Batch("final", j, failed, events)}
       /\ job' = [job EXCEPT ![c] = NoJob]
       /\ SignalAndJoin(c, in_cleanup[c])
       /\ UNCHANGED <<is_initialized, session_id, audio_buffer, last_processing_time,
                      recorder_is_recording, chunk_counter, chunks_made,
                      worker_pc, in_cleanup>>

\* the mutant of FileFailure: the failure is logged and an empty list returned
FileFailure_swallowed == "ok"

\* "except Exception" in process_audio_file logs and raises again
FileFailure == "error"

\* gather has returned or raised in process_audio_file: the events of what
\* the two models found in the file are returned, the exception is raised
\* again
ProcessFileEnd(c, failed) ==
    /\ job' = [job EXCEPT ![c] = NoJob]
    /\ IF failed
       THEN Return(c, "process_audio_file", FileFailure, <<>>)
       ELSE \E scenario \in ScenarioIds :
                Return(c, "process_audio_file", "ok",
                       BatchEvents(<<>>, scenario, session_id))
    /\ UNCHANGED <<is_initialized, is_processing, session_id, processing_queue,
                   processing_tasks, audio_buffer, last_processing_time,
                   recorder_is_recording, chunk_counter, chunks_made,
                   worker_pc, in_cleanup, sink>>

\* the task waiting in gather runs again
Resume(p, failed) ==
    IF p \in Workers
    THEN WorkerResume(p, failed)
    ELSE IF caller_pc[p] = "stop_final"
         THEN StopFinalResume(p, failed)
         ELSE ProcessFileEnd(p, failed)

\* the mutant of GatherDone: the caller runs on at the first result
GatherDone_first(ok, other) == TRUE

\* "await asyncio.gather(diarization_task, transcription_task)" is over
\* when a capability has raised, or when both results are in
GatherDone(ok, other) == ~ok \/ other # "run"

\* One capability task of p's job ends.  gather raises at the first
\* exception and returns when both results are in
CapabilityDone(p, cap, ok) ==
    /\ LoopFree
    /\ job[p][cap] = "run"
    /\ IF ~GatherDone(ok, job[p][OtherCapability(cap)])
       THEN /\ job' = [job EXCEPT ![p][cap] = "ok"]
            /\ UNCHANGED <<is_initialized, is_processing, session_id,
                           processing_queue, processing_tasks, audio_buffer,
                           last_processing_time, recorder_is_recording,
                           chunk_counter, chunks_made, worker_pc, caller_pc,
                           in_cleanup, sink, result>>
       ELSE Resume(p, ~ok)

\* the same, where the tasks gather leaves behind are not followed
CapabilityEnd(p, cap, ok) ==
    /\ CapabilityDone(p, cap, ok)
    /\ UNCHANGED <<merge_vars, align_vars, ipc_vars, events_vars, task_vars, host_vars>>

\* diarizer.diarize_audio_data / diarize_audio_file ends
DiarizeEnd(p, ok) == CapabilityEnd(p, "diar", ok)

\* transcriber.transcribe_audio_data / transcribe_audio_file ends
TranscribeEnd(p, ok) == CapabilityEnd(p, "trans", ok)

(* ------------------------------------------------------------------ *)
(* Worker pool: _processing_worker                                     *)
(* ------------------------------------------------------------------ *)

\* the mutant of QueueAfterGet: the worker looks at the head and leaves it
QueueAfterGet_peek(q) == q

\* asyncio.Queue.get() takes the item it returns out of the queue
QueueAfterGet(q) == Tail(q)

\* the mutant of AfterSentinel: the worker takes the marker and waits on
AfterSentinel_ignored == "get"

\* "if chunks is None: break": the worker's loop is over
AfterSentinel == "done"

\* chunks = await self._processing_queue.get(): the sentinel ends the
\* loop, a window starts _process_audio_chunks
WorkerGet(w) ==
    /\ LoopFree
    /\ worker_pc[w] = "get"
    /\ processing_queue # <<>>
    /\ processing_queue' = QueueAfterGet(processing_queue)
    /\ IF Head(processing_queue).none
       THEN /\ worker_pc' = [worker_pc EXCEPT ![w] = AfterSentinel]
            /\ UNCHANGED job
       ELSE /\ worker_pc' = [worker_pc EXCEPT ![w] = "process"]
            /\ StartJob(w, Head(processing_queue).chunks,
                        ScenarioOf(Head(processing_queue).chunks))
    /\ UNCHANGED <<is_initialized, is_processing, session_id, processing_tasks,
                   audio_buffer, last_processing_time, recorder_is_recording,
                   chunk_counter, chunks_made, caller_pc, in_cleanup, sink, result>>
    /\ UNCHANGED <<merge_vars, align_vars, ipc_vars, events_vars, task_vars, host_vars>>

(* ------------------------------------------------------------------ *)
(* Session controller: the public coroutines of AudioProcessor         *)
(* ------------------------------------------------------------------ *)

\* the mutant of NewSessionId: the id is drawn before the guard
NewSessionId_always(initialized, old) == old + 1

\* _session_id after "if self._is_initialized: return" and
\* "self._session_id = str(uuid.uuid4())": the next uuid4, or the old id
NewSessionId(initialized, old) == IF initialized THEN old ELSE old + 1

\* initialize(): a new session id, then the three components start
InitializeBody(c) ==
    /\ LoopFree
    /\ caller_pc[c] = "idle"
    /\ session_id' = NewSessionId(is_initialized, session_id)
    /\ IF is_initialized
       THEN Return(c, "initialize", "ok", <<>>)
       ELSE /\ session_id < MaxSessions
            /\ Suspend(c, "initialize")
    /\ UNCHANGED <<is_initialized, is_processing, processing_queue, processing_tasks,
                   audio_buffer, last_processing_time, recorder_is_recording,
                   chunk_counter, chunks_made, worker_pc, in_cleanup, job, sink>>

\* the same, called by somebody other than the IPC handler
Initialize(c) ==
    /\ InitializeBody(c)
    /\ UNCHANGED <<merge_vars, align_vars, ipc_vars, events_vars, task_vars, host_vars>>

\* the mutant of InitializedAfter: the flag is set whatever gather did
InitializedAfter_always(ok) == TRUE

\* self._is_initialized = True is reached only if gather did not raise
InitializedAfter(ok) == ok

\* the gather of initialize() returns, or raises what a component raised
InitializeEnd(c, ok) ==
    /\ LoopFree
    /\ caller_pc[c] = "initialize"
    /\ is_initialized' = InitializedAfter(ok)
    /\ Return(c, "initialize", IF ok THEN "ok" ELSE "error", <<>>)
    /\ UNCHANGED <<is_processing, session_id, processing_queue, processing_tasks,
                   audio_buffer, last_processing_time, recorder_is_recording,
                   chunk_counter, chunks_made, worker_pc, in_cleanup, job, sink>>
    /\ UNCHANGED <<merge_vars, align_vars, ipc_vars, events_vars, task_vars, host_vars>>

\* the mutant of StartRejected: a recording in progress is not looked at
StartRejected_uninitialized_only == ~is_initialized

\* the two guards of start_recording(), each raising RuntimeError
StartRejected == ~is_initialized \/ is_processing

\* start_recording() up to the recorder: the two guards, then the stream
\* is opened and calls back from its own thread
StartRecording(c, opened) ==
    /\ LoopFree
    /\ caller_pc[c] = "idle"
    /\ IF StartRejected \/ ~opened
       THEN /\ Return(c, "start_recording", "error", <<>>)
            /\ UNCHANGED <<recorder_is_recording, chunk_counter>>
       ELSE /\ recorder_is_recording' = TRUE
            /\ chunk_counter' = 0
            /\ Suspend(c, "start_recording")
    /\ UNCHANGED <<is_initialized, is_processing, session_id, processing_queue,
                   processing_tasks, audio_buffer, last_processing_time,
                   chunks_made, worker_pc, in_cleanup, job, sink>>
    /\ UNCHANGED <<merge_vars, align_vars, ipc_vars, events_vars, task_vars, host_vars>>

\* the mutant of NewTasks: one worker whatever the configuration says
NewTasks_one == <<WorkerName[1]>>

\* for i in range(max_concurrent_processing): create_task(_processing_worker)
NewTasks == [i \in 1..max_concurrent_processing |-> WorkerName[i]]

\* start_recording() after the recorder: the workers, then the flag
StartRecordingEnd(c) ==
    /\ caller_pc[c] = "start_recording"
    /\ processing_tasks' = processing_tasks \o (IF real_time THEN NewTasks ELSE <<>>)
    /\ worker_pc' = [w \in Workers |-> IF real_time THEN "get" ELSE worker_pc[w]]
    /\ is_processing' = TRUE
    /\ Return(c, "start_recording", "ok", <<>>)
    /\ UNCHANGED <<is_initialized, session_id, processing_queue, audio_buffer,
                   last_processing_time, recorder_is_recording, chunk_counter,
                   chunks_made, in_cleanup, job, sink>>
    /\ UNCHANGED <<merge_vars, align_vars, ipc_vars, events_vars, task_vars, host_vars>>

\* the mutant of FinalChunks: the flush checks the minimum duration
FinalChunks_conditional(buffer) ==
    IF TotalDuration(buffer) >= min_audio_duration THEN buffer ELSE <<>>

\* final_chunks = self._audio_buffer.copy()
FinalChunks(buffer) == buffer

\* stop_recording() past its guard: the recorder stops, what the buffer
\* holds is processed as one window, then the workers are told to stop
StopBody(c, cleaning) ==
    /\ recorder_is_recording' = FALSE
    /\ IF audio_buffer # <<>>
       THEN /\ audio_buffer' = <<>>
            /\ IF FinalChunks(audio_buffer) # <<>>
               THEN /\ StartJob(c, FinalChunks(audio_buffer),
                                ScenarioOf(FinalChunks(audio_buffer)))
                    /\ Suspend(c, "stop_final")
                    /\ UNCHANGED <<processing_queue, processing_tasks, is_processing>>
               ELSE /\ SignalAndJoin(c, cleaning)
                    /\ UNCHANGED job
       ELSE /\ SignalAndJoin(c, cleaning)
            /\ UNCHANGED <<audio_buffer, job>>

StopRecording(c) ==
    /\ LoopFree
    /\ caller_pc[c] = "idle"
    /\ IF ~is_processing
       THEN /\ Return(c, "stop_recording", "ok", <<>>)
            /\ UNCHANGED <<is_processing, processing_queue, processing_tasks,
                           audio_buffer, recorder_is_recording, job>>
       ELSE StopBody(c, FALSE)
    /\ UNCHANGED <<is_initialized, session_id, last_processing_time, chunk_counter,
                   chunks_made, worker_pc, in_cleanup, sink>>
    /\ UNCHANGED <<merge_vars, align_vars, ipc_vars, events_vars, task_vars, host_vars>>

\* the mutant of JoinDone: the first worker's exit is enough
JoinDone_first(tasks) == worker_pc[tasks[1]] = "done"

\* await asyncio.gather(*self._processing_tasks, return_exceptions=True)
JoinDone(tasks) == \A i \in 1..Len(tasks) : worker_pc[tasks[i]] = "done"

StopJoin(c) ==
    /\ LoopFree
    /\ caller_pc[c] = "stop_join"
    /\ JoinDone(processing_tasks)
    /\ StopFinished(c, in_cleanup[c])
    /\ UNCHANGED <<is_initialized, session_id, processing_queue, audio_buffer,
                   last_processing_time, recorder_is_recording, chunk_counter,
                   chunks_made, worker_pc, in_cleanup, job, sink>>
    /\ UNCHANGED <<merge_vars, align_vars, ipc_vars, events_vars, task_vars, host_vars>>

\* process_audio_file(): the guard, then the two capability tasks
ProcessFile(c) ==
    /\ LoopFree
    /\ caller_pc[c] = "idle"
    /\ IF ~is_initialized
       THEN /\ Return(c, "process_audio_file", "error", <<>>)
            /\ UNCHANGED job
       ELSE /\ StartJob(c, <<>>, 0)
            /\ Suspend(c, "process_file")
    /\ UNCHANGED <<is_initialized, is_processing, session_id, processing_queue,
                   processing_tasks, audio_buffer, last_processing_time,
                   recorder_is_recording, chunk_counter, chunks_made, worker_pc,
                   in_cleanup, sink>>
    /\ UNCHANGED <<merge_vars, align_vars, ipc_vars, events_vars, task_vars, host_vars>>

\* cleanup(): a recording in progress is stopped first
CleanupBody(c) ==
    /\ LoopFree
    /\ caller_pc[c] = "idle"
    /\ in_cleanup' = [in_cleanup EXCEPT ![c] = TRUE]
    /\ IF is_processing
       THEN StopBody(c, TRUE)
       ELSE /\ Suspend(c, "cleanup")
            /\ UNCHANGED <<is_processing, processing_queue, processing_tasks,
                           audio_buffer, recorder_is_recording, job>>
    /\ UNCHANGED <<is_initialized, session_id, last_processing_time, chunk_counter,
                   chunks_made, worker_pc, sink>>

\* the same, called by somebody other than the IPC handler
Cleanup(c) ==
    /\ CleanupBody(c)
    /\ UNCHANGED <<merge_vars, align_vars, ipc_vars, events_vars, task_vars, host_vars>>

\* the mutant of CleanupOutcome: a release that raised is raised again
CleanupOutcome_propagates(released) == IF released THEN "ok" ELSE "error"

\* gather(..., return_exceptions=True) hands back what a release raised
\* as a value, which cleanup() does not look at
CleanupOutcome(released) == "ok"

\* the gather of cleanup() returns, whether the three releases went well
\* (released) or not: the recorder is stopped, the processor is no longer
\* initialized
CleanupEndBody(c, released) ==
    /\ LoopFree
    /\ caller_pc[c] = "cleanup"
    /\ recorder_is_recording' = FALSE
    /\ is_initialized' = FALSE
    /\ in_cleanup' = [in_cleanup EXCEPT ![c] = FALSE]
    /\ Return(c, "cleanup", CleanupOutcome(released), <<>>)
    /\ UNCHANGED <<is_processing, session_id, processing_queue, processing_tasks,
                   audio_buffer, last_processing_time, chunk_counter, chunks_made,
                   worker_pc, job, sink>>

\* the same, for a cleanup() the IPC handler does not wait for
CleanupEnd(c, released) ==
    /\ CleanupEndBody(c, released)
    /\ UNCHANGED <<merge_vars, align_vars, ipc_vars, events_vars, task_vars, host_vars>>

(* ------------------------------------------------------------------ *)
(* The pipeline                                                        *)
(* ------------------------------------------------------------------ *)

Next ==
    \/ \E duration \in Durations : AudioCallback(duration)
    \/ \E w \in Workers : WorkerGet(w)
    \/ \E p \in Procs, ok \in BOOLEAN : DiarizeEnd(p, ok)
    \/ \E p \in Procs, ok \in BOOLEAN : TranscribeEnd(p, ok)
    \/ \E c \in Callers : Initialize(c)
    \/ \E c \in Callers, ok \in BOOLEAN : InitializeEnd(c, ok)
    \/ \E c \in Callers, opened \in BOOLEAN : StartRecording(c, opened)
    \/ \E c \in Callers : StartRecordingEnd(c)
    \/ \E c \in Callers : StopRecording(c)
    \/ \E c \in Callers : StopJoin(c)
    \/ \E c \in Callers : ProcessFile(c)
    \/ \E c \in Callers : Cleanup(c)
    \/ \E c \in Callers, released \in BOOLEAN : CleanupEnd(c, released)

Spec == Init /\ [][Next]_vars

(* ------------------------------------------------------------------ *)
(* merge_overlapping_segments on its own                               *)
(* ------------------------------------------------------------------ *)

\* the times segments start and end at: a gap of 0, one within the default
\* tolerance, one beyond it
MergeTimes == {0, min_audio_duration, min_audio_duration + default_tolerance - 2,
               process_interval + process_interval + min_audio_duration}

\* the segments merge is tried on: every speaker on every interval, the
\* confidence rising with the length, so that of two segments either can
\* be the surer one
MergeSegments ==
    {[speaker_id |-> sp, start_time |-> iv[1], end_time |-> iv[2],
      confidence |-> 50 + (iv[2] - iv[1]), audio_chunk_ids |-> <<iv[1]>>] :
        sp \in Speakers, iv \in Intervals(MergeTimes)}

MergeTolerances == {0, default_tolerance}

MergeInit ==
    /\ merge_pc = "in"
    /\ merge_in \in SeqsUpTo(MergeSegments, MaxMergeSegs)
    /\ merge_tolerance \in MergeTolerances
    /\ merged = <<>>
    /\ remerged = <<>>
    /\ PipeInit
    /\ AlignIdle
    /\ IpcIdle
    /\ TasksIdle
    /\ HostIdle
    /\ EventsIdle

\* the mutant of InputAfterMerge: the caller's list is sorted in place
InputAfterMerge_sorted(segments) == SortByStart(segments)

\* the caller's list after the call: the segments are copied into the lists
\* of speaker_segments, and it is those lists that are sorted; a merge
\* builds a new SpeakerSegment
InputAfterMerge(segments) == segments

\* merged = merge_overlapping_segments(segments, tolerance)
MergeOnce ==
    /\ merge_pc = "in"
    /\ merged' = merge_overlapping_segments(merge_in, merge_tolerance)
    /\ merge_in' = InputAfterMerge(merge_in)
    /\ merge_pc' = "merged"
    /\ UNCHANGED <<merge_tolerance, remerged>>
    /\ UNCHANGED <<pipe_vars, align_vars, ipc_vars, events_vars, task_vars, host_vars>>

\* merge_overlapping_segments(merged, tolerance)
MergeAgain ==
    /\ merge_pc = "merged"
    /\ remerged' = merge_overlapping_segments(merged, merge_tolerance)
    /\ merged' = InputAfterMerge(merged)
    /\ merge_pc' = "remerged"
    /\ UNCHANGED <<merge_in, merge_tolerance>>
    /\ UNCHANGED <<pipe_vars, align_vars, ipc_vars, events_vars, task_vars, host_vars>>

NextMerge == MergeOnce \/ MergeAgain

SpecMerge == MergeInit /\ [][NextMerge]_vars

(* ------------------------------------------------------------------ *)
(* align_with_speaker_diarization on its own                           *)
(* ------------------------------------------------------------------ *)

\* 1.0, 1.5, 2.0 and 3.0 s
AlignTimes == {min_audio_duration, min_audio_duration + default_tolerance,
               process_interval, process_interval + min_audio_duration}

\* the transcription segments alignment is tried on: any start and end, a
\* zero or negative duration included, with and without a speaker set before
AlignTranscripts ==
    {[text |-> <<"a">>, start_time |-> a, end_time |-> b, confidence |-> 100,
      speaker_id |-> sp] :
        a \in AlignTimes, b \in AlignTimes, sp \in Speakers \cup {None}}

AlignSpeakerSegments ==
    {SpeakerSeg(sp, iv[1], iv[2]) : sp \in Speakers, iv \in Intervals(AlignTimes)}

AlignInit ==
    /\ align_pc = "in"
    /\ align_in \in {<<ts>> : ts \in AlignTranscripts}
    /\ align_speakers \in SeqsUpTo(AlignSpeakerSegments, MaxAlignSegs)
    /\ aligned = <<>>
    /\ PipeInit
    /\ MergeIdle
    /\ IpcIdle
    /\ TasksIdle
    /\ HostIdle
    /\ EventsIdle

\* aligned = align_with_speaker_diarization(transcription, speaker_segments)
Align ==
    /\ align_pc = "in"
    /\ aligned' = align_with_speaker_diarization(align_in, align_speakers)
    /\ align_pc' = "done"
    /\ UNCHANGED <<align_in, align_speakers>>
    /\ UNCHANGED <<pipe_vars, merge_vars, ipc_vars, events_vars, task_vars, host_vars>>

NextAlign == Align

SpecAlign == AlignInit /\ [][NextAlign]_vars

(* ------------------------------------------------------------------ *)
(* Properties of the pipeline                                          *)
(* ------------------------------------------------------------------ *)

SortedByStartTime(events) ==
    \A i, j \in 1..Len(events) : i < j => events[i].start_time <= events[j].start_time

\* C1: the events of every window (a worker's, the final flush's, a file's)
\* reach the sink, or are returned, in non-decreasing order of start_time
C1_BatchSortedByStartTime ==
    /\ \A b \in sink : SortedByStartTime(b.events)
    /\ \A c \in Callers : SortedByStartTime(result[c].events)

\* C1 happens: a batch of two events was delivered in time order although
\* the transcription the synthesizer was given is not in time order
C1_Witness ==
    \E b \in sink :
        /\ b.outcome = "delivered"
        /\ Len(b.events) >= 2
        /\ b.events[1].start_time < b.events[2].start_time
        /\ Scenarios[b.scenario].trans[1].start_time
               > Scenarios[b.scenario].trans[2].start_time

\* C2: the Dispatch Queue never holds more items than its capacity, however
\* fast windows are pushed
C2_QueueWithinCapacity == Len(processing_queue) <= QueueCapacity

\* a step of the accumulator that dispatched a window: one more chunk, and
\* the buffer is empty afterwards
AcceptDispatched ==
    /\ chunks_made' = chunks_made + 1
    /\ audio_buffer' = <<>>

WorkerFailed(w) ==
    /\ job[w] # NoJob
    /\ job'[w] = NoJob
    /\ \E b \in sink' \ sink : b.outcome = "failed" /\ b.worker_id = w

\* every batch delivered in this step is the whole batch of its own
\* window, and no batch delivered before is touched
BatchesIntact ==
    /\ sink \subseteq sink'
    /\ \A b \in sink' \ sink : b.outcome = "delivered" =>
           /\ b.scenario = ScenarioOf(b.chunks)
           /\ b.events = BatchEvents(b.chunks, b.scenario, session_id)

\* C4: a capability failure on one window leaves the worker that had it
\* alive and waiting for the next window, leaves the other workers, their
\* windows, the queue and all delivered batches as they were, and every
\* delivered batch is the full batch of its window
C4_FailureIsolated ==
    [][/\ BatchesIntact
       /\ \A w \in Workers : WorkerFailed(w) =>
             /\ worker_pc'[w] = "get"
             /\ \A v \in Workers \ {w} : worker_pc'[v] = worker_pc[v] /\ job'[v] = job[v]
             /\ processing_queue' = processing_queue]_vars

\* C4 happens: window A failed on worker w, w is alive, and a later window B
\* had its events delivered
C4_Witness ==
    \E w \in Workers, a \in sink, b \in sink :
        /\ a.outcome = "failed" /\ a.worker_id = w
        /\ worker_pc[w] = "get"
        /\ b.outcome = "delivered" /\ Len(b.events) >= 1
        /\ b.chunks[1].chunk_id > a.chunks[1].chunk_id

\* stop_recording() gets past its guard while the buffer holds chunks: the
\* recorder was capturing for a recording in progress and is stopped
StopWithBufferedAudio ==
    /\ is_processing
    /\ recorder_is_recording
    /\ ~recorder_is_recording'
    /\ audio_buffer # <<>>

ProcessedChunks == UNION {{b.chunks[i] : i \in 1..Len(b.chunks)} : b \in sink}

C7_MergeIdempotent == merge_pc = "remerged" => remerged = merged

\* what the claim says of a segment: whose it is, when, how sure
Core(seg) ==
    [speaker_id |-> seg.speaker_id, start_time |-> seg.start_time,
     end_time |-> seg.end_time, confidence |-> seg.confidence]

RECURSIVE ReferenceFold(_, _, _)
\* the reference operator on one speaker's segments in start order: current
\* takes in the next segment when next.start_time <= current.end_time +
\* tolerance, and is put out when it does not
ReferenceFold(current, rest, tolerance) ==
    IF rest = <<>> THEN <<current>>
    ELSE IF Head(rest).start_time <= current.end_time + tolerance
    THEN ReferenceFold([current EXCEPT
                           !.end_time = IF Head(rest).end_time > @
                                        THEN Head(rest).end_time ELSE @,
                           !.confidence = IF Head(rest).confidence > @
                                          THEN Head(rest).confidence ELSE @],
                       Tail(rest), tolerance)
    ELSE <<current>> \o ReferenceFold(Head(rest), Tail(rest), tolerance)

\* the reference operator on the segments of speaker sp among segments
ReferenceMerge(segments, sp, tolerance) ==
    LET own == SortByStart(SelectSeq(segments, LAMBDA seg : seg.speaker_id = sp))
        cores == [i \in 1..Len(own) |-> Core(own[i])]
    IN IF cores = <<>> THEN <<>> ELSE ReferenceFold(Head(cores), Tail(cores), tolerance)

\* the segments of speaker sp in result, as the claim sees them
CoresOf(result_segments, sp) ==
    LET own == SelectSeq(result_segments, LAMBDA seg : seg.speaker_id = sp)
    IN [i \in 1..Len(own) |-> Core(own[i])]

\* result is what the reference operator makes of segments
EqualsReference(result_segments, segments, tolerance) ==
    /\ \A i, j \in 1..Len(result_segments) :
           i < j => result_segments[i].start_time <= result_segments[j].start_time
    /\ \A i \in 1..Len(result_segments) : result_segments[i].speaker_id \in Speakers
    /\ \A sp \in Speakers :
           CoresOf(result_segments, sp) = ReferenceMerge(segments, sp, tolerance)

\* the two examples, in tenths of a second: A:[0,2], B:[2.4,4] and
\* A:[0,2], A:[2.3,4] with tolerance 0.5
ExampleTwoSpeakers == <<SpeakerSeg("A", 0, 20), SpeakerSeg("B", 24, 40)>>

ExampleOneSpeaker == <<SpeakerSeg("A", 0, 20), SpeakerSeg("A", 23, 40)>>

\* C22: merge gives what the reference fold gives, speaker by speaker, in
\* start order across the speakers; the two A/B segments of the first example
\* stay as they are and the two A segments of the second become A:[0,4]
C22_MergeEqualsReference ==
    merge_pc # "in" =>
        /\ EqualsReference(merged, merge_in, merge_tolerance)
        /\ merge_overlapping_segments(ExampleTwoSpeakers, default_tolerance)
               = ExampleTwoSpeakers
        /\ merge_overlapping_segments(ExampleOneSpeaker, default_tolerance)
               = <<SpeakerSeg("A", 0, 40)>>

\* C22 happens: three segments of two speakers, two of one speaker merged
\* across a gap within the tolerance with the later one the surer, and the
\* other speaker's segment, which lies in that gap's reach, left alone
C22_Witness ==
    /\ merge_pc = "merged"
    /\ Len(merge_in) = 3
    /\ Len(merged) = 2
    /\ merge_tolerance = default_tolerance
    /\ \E i, j \in 1..3 :
           /\ merge_in[i].speaker_id = merge_in[j].speaker_id
           /\ merge_in[i].end_time < merge_in[j].start_time
           /\ merge_in[i].confidence < merge_in[j].confidence
    /\ merged[1].speaker_id # merged[2].speaker_id
    /\ merged[2].start_time <= merged[1].end_time

(* ------------------------------------------------------------------ *)
(* Properties of alignment                                             *)
(* ------------------------------------------------------------------ *)

\* max(0, min(ends) - max(starts))
Overlap(ts, seg) ==
    Max2(0, Min2(ts.end_time, seg.end_time) - Max2(ts.start_time, seg.start_time))

\* the greatest overlap any of the segments has with ts, 0 for none
MaxOverlap(ts, segs) ==
    LET overlaps == {0} \cup {Overlap(ts, segs[i]) : i \in 1..Len(segs)}
    IN CHOOSE m \in overlaps : \A o \in overlaps : o <= m

\* the first position in segs whose overlap with ts is the greatest
FirstMax(ts, segs) ==
    CHOOSE i \in 1..Len(segs) :
        /\ Overlap(ts, segs[i]) = MaxOverlap(ts, segs)
        /\ \A k \in 1..(i - 1) : Overlap(ts, segs[k]) < MaxOverlap(ts, segs)

\* C8: a transcription segment of positive duration gets the speaker of a
\* segment of maximum overlap ratio if and only if that ratio is above 0.5
\* (twice the overlap exceeds the duration), and no speaker otherwise;
\* [1.0,3.0] against A:[2.0,3.0] gets none, against A:[1.5,3.0] gets A
C8_AssignedIffMajorityOverlap ==
    /\ (align_pc = "done" /\ Duration(align_in[1]) > 0) =>
           LET ts == align_in[1]
               m == MaxOverlap(ts, align_speakers)
           IN IF 2 * m > Duration(ts)
              THEN \E i \in 1..Len(align_speakers) :
                       /\ Overlap(ts, align_speakers[i]) = m
                       /\ aligned[1].speaker_id = align_speakers[i].speaker_id
              ELSE aligned[1].speaker_id = None
    /\ align_with_speaker_diarization(<<TransSeg(<<"a">>, 10, 30, 100)>>,
                                      <<SpeakerSeg("A", 20, 30)>>)[1].speaker_id = None
    /\ align_with_speaker_diarization(<<TransSeg(<<"a">>, 10, 30, 100)>>,
                                      <<SpeakerSeg("A", 15, 30)>>)[1].speaker_id = "A"

\* C8 happens: the best overlap is exactly half of the duration, and the
\* segment was left without a speaker
C8_Witness ==
    /\ align_pc = "done"
    /\ Duration(align_in[1]) > 0
    /\ MaxOverlap(align_in[1], align_speakers) > 0
    /\ 2 * MaxOverlap(align_in[1], align_speakers) = Duration(align_in[1])
    /\ aligned[1].speaker_id = None

\* C9: a transcription segment that overlaps no speaker segment, and one of
\* zero or negative duration, leaves alignment without a speaker, whatever
\* speaker it came with
C9_NoOverlapNoSpeaker ==
    (/\ align_pc = "done"
     /\ \/ Duration(align_in[1]) <= 0
        \/ \A i \in 1..Len(align_speakers) : Overlap(align_in[1], align_speakers[i]) = 0)
        => aligned[1].speaker_id = None

\* C9 happens: a segment of positive duration that came with a speaker and
\* overlaps none of the speaker segments given has been aligned
C9_Witness ==
    /\ align_pc = "done"
    /\ align_in[1].speaker_id # None
    /\ Duration(align_in[1]) > 0
    /\ align_speakers # <<>>
    /\ \A i \in 1..Len(align_speakers) : Overlap(align_in[1], align_speakers[i]) = 0

\* C10: alignment is a function of its arguments, and among several speaker
\* segments of the same maximal ratio above 0.5 the first in input order
\* gives the speaker
C10_FirstOfEqualBestWins ==
    align_pc = "done" =>
        /\ aligned = align_with_speaker_diarization(align_in, align_speakers)
        /\ (/\ Duration(align_in[1]) > 0
            /\ 2 * MaxOverlap(align_in[1], align_speakers) > Duration(align_in[1]))
               => aligned[1].speaker_id
                      = align_speakers[FirstMax(align_in[1], align_speakers)].speaker_id

\* C10 happens: two segments of different speakers reach the same maximal
\* ratio above 0.5
C10_Witness ==
    /\ align_pc = "done"
    /\ Duration(align_in[1]) > 0
    /\ 2 * MaxOverlap(align_in[1], align_speakers) > Duration(align_in[1])
    /\ \E i, k \in 1..Len(align_speakers) :
           /\ i < k
           /\ align_speakers[i].speaker_id # align_speakers[k].speaker_id
           /\ Overlap(align_in[1], align_speakers[i]) = MaxOverlap(align_in[1], align_speakers)
           /\ Overlap(align_in[1], align_speakers[k]) = MaxOverlap(align_in[1], align_speakers)

(* ------------------------------------------------------------------ *)
(* Properties of the session controller                                *)
(* ------------------------------------------------------------------ *)

\* caller c's call of op returns or raises in this step, with a result
\* that differs from what c held before
Returns(c, op) ==
    /\ caller_pc'[c] = "idle"
    /\ result'[c].op = op
    /\ result'[c] # result[c]

\* C11: a start_recording() on a processor that is not initialized, or that
\* is already processing, never gets to the recorder and raises, leaving
\* the flags, the session id, the workers, the queue, the buffer and the
\* recorder as they were
C11_StartRejected ==
    [][\A c \in Callers :
          (caller_pc[c] = "idle" /\ (~is_initialized \/ is_processing)) =>
              /\ caller_pc'[c] # "start_recording"
              /\ Returns(c, "start_recording") =>
                     /\ result'[c].outcome = "error"
                     /\ UNCHANGED <<is_initialized, is_processing, session_id,
                                    processing_queue, processing_tasks, audio_buffer,
                                    last_processing_time, recorder_is_recording,
                                    chunk_counter, chunks_made, worker_pc, job, sink>>]_vars

\* C11 happens: a second start_recording() was rejected while the first
\* recording goes on with its workers
C11_Witness ==
    \E c \in Callers :
        /\ is_processing
        /\ recorder_is_recording
        /\ caller_pc[c] = "idle"
        /\ result[c] = [op |-> "start_recording", outcome |-> "error", events |-> <<>>]
        /\ \A w \in Workers : worker_pc[w] \in {"get", "process"}

\* C12: an initialize() whose gather raised (a component failed) raises to
\* its caller and leaves the processor not initialized, one that returned
\* left it initialized; and on a processor that is not initialized
\* start_recording() and process_audio_file() go nowhere and raise
C12_InitFailurePropagates ==
    [][\A c \in Callers :
          /\ (caller_pc[c] = "initialize" /\ caller_pc'[c] # "initialize") =>
                 /\ Returns(c, "initialize")
                 /\ result'[c].outcome \in {"ok", "error"}
                 /\ result'[c].outcome = "error" <=> ~is_initialized'
          /\ (caller_pc[c] = "idle" /\ ~is_initialized) =>
                 /\ caller_pc'[c] \notin {"start_recording", "process_file"}
                 /\ (Returns(c, "start_recording") \/ Returns(c, "process_audio_file"))
                        => /\ result'[c].outcome = "error"
                           /\ UNCHANGED <<is_initialized, is_processing, job, worker_pc,
                                          recorder_is_recording, processing_tasks>>]_vars

\* C12 happens: initialize() has raised and the processor is not initialized
C12_Witness ==
    \E c \in Callers :
        /\ caller_pc[c] = "idle"
        /\ result[c] = [op |-> "initialize", outcome |-> "error", events |-> <<>>]
        /\ ~is_initialized
        /\ session_id >= 1

\* C13: the session id changes only in the step in which initialize() is
\* called on a processor that is not initialized, and then to an id never
\* used before; an initialized processor has an id, and no step changes it
\* while the processor stays initialized; an initialize() on an initialized
\* processor returns at once and changes neither the id nor the state
C13_SessionIdStable ==
    [][/\ session_id' # session_id =>
            /\ ~is_initialized
            /\ session_id' > session_id
            /\ \E c \in Callers : caller_pc[c] = "idle" /\ caller_pc'[c] = "initialize"
       /\ is_initialized => session_id' = session_id
       /\ is_initialized' => session_id' >= 1
       /\ \A c \in Callers :
            (caller_pc[c] = "idle" /\ is_initialized) =>
                /\ caller_pc'[c] # "initialize"
                /\ Returns(c, "initialize") =>
                       /\ result'[c].outcome = "ok"
                       /\ UNCHANGED <<is_initialized, is_processing, session_id,
                                      processing_queue, processing_tasks, audio_buffer,
                                      last_processing_time, recorder_is_recording,
                                      chunk_counter, chunks_made, worker_pc, job, sink>>]_vars

\* C13 happens: initialize() was called again during a recording that has
\* delivered events, which carry the session's id
C13_Witness ==
    \E c \in Callers, b \in sink :
        /\ is_processing
        /\ caller_pc[c] = "idle"
        /\ result[c] = [op |-> "initialize", outcome |-> "ok", events |-> <<>>]
        /\ b.outcome = "delivered"
        /\ Len(b.events) >= 1
        /\ b.events[1].session_id = session_id

\* no worker task is waiting for a window or inside one
NoWorkerRunning ==
    \A w \in Workers : worker_pc[w] \in {"none", "done"} /\ job[w] = NoJob

\* everything but the caller's own position and result
SessionState ==
    <<is_initialized, is_processing, session_id, processing_queue, processing_tasks,
      audio_buffer, last_processing_time, recorder_is_recording, chunk_counter,
      chunks_made, worker_pc, job, sink>>

RecorderStopRaisesBody(c, op) ==
    /\ LoopFree
    /\ caller_pc[c] = "idle"
    /\ is_processing
    /\ recorder_is_recording
    /\ recorder_is_recording' = FALSE
    /\ Return(c, op, "error", <<>>)
    /\ UNCHANGED <<is_initialized, is_processing, session_id, processing_queue,
                   processing_tasks, audio_buffer, last_processing_time,
                   chunk_counter, chunks_made, worker_pc, in_cleanup, job, sink>>

\* the same, for a call the IPC handler does not wait for
RecorderStopRaises(c, op) ==
    /\ RecorderStopRaisesBody(c, op)
    /\ UNCHANGED <<merge_vars, align_vars, ipc_vars, events_vars, task_vars, host_vars>>

StopRecordingRaises(c) == RecorderStopRaises(c, "stop_recording")

CleanupRaises(c) == RecorderStopRaises(c, "cleanup")

NextTeardown ==
    \/ Next
    \/ \E c \in Callers : StopRecordingRaises(c)
    \/ \E c \in Callers : CleanupRaises(c)

SpecTeardown == Init /\ [][NextTeardown]_vars

\* C15: stop_recording() and cleanup() never raise, and when they are back
\* the shutdown is complete: not processing, no worker running
C15_TeardownNeverRaises ==
    \A c \in Callers :
        (caller_pc[c] = "idle" /\ result[c].op \in {"stop_recording", "cleanup"}) =>
            /\ result[c].outcome = "ok"
            /\ ~is_processing
            /\ NoWorkerRunning

(* ------------------------------------------------------------------ *)
(* Properties of window processing and of the worker pool              *)
(* ------------------------------------------------------------------ *)

\* the batches this step hands to the result callback or logs as failed
NewBatches == sink' \ sink

\* batch b comes from a job both of whose capability tasks have succeeded:
\* one had its result in, the other ends in this step
BothCompleted(b) ==
    \E p \in Procs :
        /\ job[p].chunks = b.chunks
        /\ job'[p] = NoJob
        /\ \/ job[p].diar = "ok" /\ job[p].trans = "run"
           \/ job[p].diar = "run" /\ job[p].trans = "ok"

\* a window whose processing failed has no event in the sink
FailedWindowSilent ==
    \A b \in sink :
        b.outcome = "failed" =>
            /\ b.events = <<>>
            /\ \A d \in sink : d.chunks = b.chunks => d.outcome = "failed"

\* C16: the events of a window reach the sink only in the step in which
\* the second of Diarize and Transcribe succeeds on it, and a window on
\* which either has failed never has an event in the sink
C16_EventsOnlyAfterBoth ==
    [][/\ \A b \in NewBatches :
              /\ b.outcome = "delivered" => BothCompleted(b)
              /\ b.events # <<>> => b.outcome = "delivered"
       /\ FailedWindowSilent']_vars

C16_Witness ==
    /\ \E b \in sink : b.outcome = "delivered" /\ b.events # <<>>
    /\ \E b \in sink : b.outcome = "failed"
    /\ \E p \in Procs : job[p].diar = "ok" /\ job[p].trans = "run"

\* how many times window win stands in the queue
TimesQueued(win) ==
    Cardinality({i \in 1..Len(processing_queue) :
                    processing_queue[i] = QueueItem(win)})

\* the workers that hold window win in _process_audio_chunks
WorkersHolding(win) == {w \in Workers : job[w].chunks = win}

\* the outcomes window win has had
BatchesOf(win) == {b \in sink : b.chunks = win}

\* every window the pipeline has seen
KnownWindows ==
    {processing_queue[i].chunks : i \in 1..Len(processing_queue)}
        \cup {job[p].chunks : p \in Procs}
        \cup {b.chunks : b \in sink}

\* a window is waiting, or with one worker, or has one outcome
OnePlaceOnly ==
    \A win \in KnownWindows \ {<<>>} :
        TimesQueued(win) + Cardinality(WorkersHolding(win))
            + Cardinality(BatchesOf(win)) <= 1

\* this step takes a window out of the queue
WindowDequeued ==
    /\ processing_queue # <<>>
    /\ ~Head(processing_queue).none
    /\ processing_queue' = Tail(processing_queue)

\* the workers that start on the head of the queue in this step
Takers ==
    {w \in Workers : /\ worker_pc[w] = "get"
                     /\ worker_pc'[w] = "process"
                     /\ job'[w].chunks = Head(processing_queue).chunks}

\* C17: a window that leaves the queue goes to exactly one worker, and no
\* window is ever in two places: twice in the queue, with two workers, with
\* a worker and still queued, or processed with two outcomes
C17_WindowProcessedOnce ==
    [][/\ WindowDequeued => Cardinality(Takers) = 1
       /\ \A w \in Workers :
              (worker_pc[w] = "get" /\ worker_pc'[w] = "process") => WindowDequeued
       /\ OnePlaceOnly']_vars

C17_Witness ==
    /\ \A w \in Workers : worker_pc[w] = "process"
    /\ \A v, w \in Workers : v # w => job[v].chunks # job[w].chunks

\* the stop signals waiting in the queue
SentinelsQueued ==
    Cardinality({i \in 1..Len(processing_queue) : processing_queue[i].none})

\* the workers still in their loop
WorkersLooping == {w \in Workers : worker_pc[w] \in {"get", "process"}}

\* while stop_recording() waits for the workers there is one signal in the
\* queue for each worker still looping, and at no other time is there one
SignalPerWorker ==
    SentinelsQueued =
        IF \E c \in Callers : caller_pc[c] = "stop_join"
        THEN Cardinality(WorkersLooping)
        ELSE 0

\* nothing that is processed or has reached the sink is a stop signal
NoSignalAsData ==
    /\ \A w \in Workers : worker_pc[w] = "process" => job[w].chunks # <<>>
    /\ \A b \in sink : b.chunks # <<>>

\* this step takes a stop signal out of the queue
SentinelDequeued ==
    /\ processing_queue # <<>>
    /\ Head(processing_queue).none
    /\ processing_queue' = Tail(processing_queue)

\* the workers that leave their loop in this step
Leavers == {w \in Workers : worker_pc[w] # "done" /\ worker_pc'[w] = "done"}

\* C18: every looping worker has its own stop signal in the queue; the
\* worker that takes a signal leaves its loop in that step, with nothing
\* processed and nothing delivered; a worker leaves its loop no other way;
\* and no signal is ever a job or a batch of the sink
C18_SentinelIsNotData ==
    [][/\ SentinelDequeued => /\ Cardinality(Leavers) = 1
                              /\ UNCHANGED <<job, sink>>
       /\ Leavers # {} => SentinelDequeued
       /\ SignalPerWorker'
       /\ NoSignalAsData']_vars

C18_Witness ==
    /\ \E c \in Callers : caller_pc[c] = "stop_join"
    /\ \E w \in Workers : worker_pc[w] = "done"
    /\ \E w \in Workers : worker_pc[w] = "process"
    /\ SentinelsQueued = 1
    /\ sink # {}

(* ------------------------------------------------------------------ *)
(* Status over IPC: IPCHandler                                         *)
(* ------------------------------------------------------------------ *)

\* the message loop awaits each handler before it reads the next line
IpcLoopFree == LoopFree /\ \A c \in Callers : caller_pc[c] = "idle"

\* the one-chunk list _handle_process_audio builds from the request
IpcChunks == <<[chunk_id |-> 0, timestamp |-> 0, duration |-> min_audio_duration]>>

\* the mutant of SessionIdAfterRequest: the processor takes the session id
\* of the request, "message.session_id or ''", for its own
SessionIdAfterRequest_adopted(own) == 0

\* the session id of a request goes into the chunk the handler builds;
\* _process_audio_chunks reads self._session_id and never assigns it
SessionIdAfterRequest(own) == own

\* _handle_process_audio.  An unsupported format raises into the handler's
\* own except, which sets _last_error.  Otherwise _process_audio_chunks
\* runs as "ipc-request": it sends the events to the callback, or catches
\* the failure of a model itself, and returns None either way, so the
\* request is counted and _last_error is left alone
HandleProcessAudio(format_ok, failed) ==
    /\ IpcLoopFree
    /\ IF format_ok
       THEN /\ total_processed < MaxRequests
            /\ total_processed' = total_processed + 1
            /\ LET j == [chunks |-> IpcChunks, scenario |-> ScenarioOf(IpcChunks)]
                   events == IF failed THEN <<>>
                             ELSE BatchEvents(j.chunks, j.scenario, session_id)
               IN sink' = sink \cup {Batch("ipc-request", j, failed, events)}
            /\ UNCHANGED last_error
       ELSE /\ last_error' = "Unsupported audio format"
            /\ UNCHANGED <<total_processed, sink>>
    /\ session_id' = SessionIdAfterRequest(session_id)
    /\ UNCHANGED <<is_initialized, is_processing, processing_queue,
                   processing_tasks, audio_buffer, last_processing_time,
                   recorder_is_recording, chunk_counter, chunks_made, worker_pc,
                   caller_pc, in_cleanup, job, result, status>>
    /\ UNCHANGED <<merge_vars, align_vars, events_vars, task_vars, host_vars>>

\* the ProcessingStatus of _send_status_message; the session id of the
\* request and the mean of the measured times are left out
StatusMessage ==
    [sent |-> TRUE,
     is_recording |-> is_processing,
     is_processing |-> is_processing,
     queue_size |-> 0,
     total_processed |-> total_processed,
     last_error |-> last_error]

\* _handle_get_status
HandleGetStatus ==
    /\ IpcLoopFree
    /\ status' = StatusMessage
    /\ UNCHANGED <<pipe_vars, merge_vars, align_vars, events_vars, task_vars, last_error, total_processed, host_vars>>

\* A recording session served over IPC.  The handler table has no entry
\* for a file, and SHUTDOWN (cleanup) ends the message loop, after which no
\* status is sent
NextStatus ==
    \/ \E duration \in Durations : AudioCallback(duration)
    \/ \E w \in Workers : WorkerGet(w)
    \/ \E p \in Procs, ok \in BOOLEAN : DiarizeEnd(p, ok)
    \/ \E p \in Procs, ok \in BOOLEAN : TranscribeEnd(p, ok)
    \/ \E c \in Callers : Initialize(c)
    \/ \E c \in Callers, ok \in BOOLEAN : InitializeEnd(c, ok)
    \/ \E c \in Callers, opened \in BOOLEAN : StartRecording(c, opened)
    \/ \E c \in Callers : StartRecordingEnd(c)
    \/ \E c \in Callers : StopRecording(c)
    \/ \E c \in Callers : StopJoin(c)
    \/ \E format_ok, failed \in BOOLEAN : HandleProcessAudio(format_ok, failed)
    \/ HandleGetStatus

SpecStatus == Init /\ [][NextStatus]_vars

\* a status message goes out in this step
StatusSent == status' # status

\* a window of the recording has failed in Diarize or Transcribe
WindowFailed == \E b \in sink : b.outcome = "failed" /\ b.worker_id \in Workers

\* C19: a status sent after a window has failed in Diarize or Transcribe
\* carries a lastError
C19_StatusCarriesLastError ==
    [][(StatusSent /\ WindowFailed) => status'.last_error # None]_vars

\* the windows waiting in the queue
WindowsQueued ==
    Cardinality({i \in 1..Len(processing_queue) : ~processing_queue[i].none})

\* C20: queueDepth in a status that is sent is the number of windows in the
\* queue at that time
C20_QueueDepthReported ==
    [][StatusSent => status'.queue_size = WindowsQueued]_vars

(* ------------------------------------------------------------------ *)
(* _create_audio_events on its own                                     *)
(* ------------------------------------------------------------------ *)

\* the texts of Whisper segments after "whisper_seg['text'].strip()": no
\* blank at either end, possibly nothing at all
EventTexts == {<<>>, <<"a">>, <<"b">>}

\* aligned transcription segments: a segment of some length with any
\* speaker or none, a segment of no length with none (alignment never gives
\* it one)
EventTranscripts ==
    {[text |-> tx, start_time |-> iv[1], end_time |-> iv[2], confidence |-> 100,
      speaker_id |-> sp] :
        tx \in EventTexts,
        iv \in {<<0, min_audio_duration>>, <<min_audio_duration, process_interval>>},
        sp \in Speakers \cup {None}}
    \cup
    {[text |-> tx, start_time |-> min_audio_duration, end_time |-> min_audio_duration,
      confidence |-> 100, speaker_id |-> None] : tx \in EventTexts}

\* the diarization of the window the segments were aligned with
EventDiarizations ==
    {<<SpeakerSeg("A", 0, min_audio_duration),
       SpeakerSeg("B", min_audio_duration, process_interval),
       SpeakerSeg("A", min_audio_duration, process_interval)>>,
     <<SpeakerSeg("B", 0, process_interval)>>}

EventsInit ==
    /\ events_pc = "in"
    /\ events_transcription \in SeqsUpTo(EventTranscripts, MaxEventSegs)
    /\ events_diarization \in EventDiarizations
    /\ events_out = <<>>
    /\ PipeInit
    /\ MergeIdle
    /\ AlignIdle
    /\ IpcIdle
    /\ TasksIdle
    /\ HostIdle

\* events = self._create_audio_events(aligned_transcription, diarization, [])
CreateEvents ==
    /\ events_pc = "in"
    /\ events_out' = create_audio_events(events_transcription, events_diarization, <<>>, 0)
    /\ events_pc' = "done"
    /\ UNCHANGED <<events_transcription, events_diarization>>
    /\ UNCHANGED <<pipe_vars, merge_vars, align_vars, ipc_vars, task_vars, host_vars>>

NextEvents == CreateEvents

SpecEvents == EventsInit /\ [][NextEvents]_vars

(* ------------------------------------------------------------------ *)
(* Properties of the event synthesizer                                 *)
(* ------------------------------------------------------------------ *)

\* the speaker groups of the synthesizer's input: a speaker id, or unknown
\* for the segments without one
InputGroups ==
    {IF events_transcription[i].speaker_id = None THEN unknown
     ELSE events_transcription[i].speaker_id : i \in 1..Len(events_transcription)}

\* the positions of the input segments of group g, in input order
Members(g) ==
    {i \in 1..Len(events_transcription) :
        events_transcription[i].speaker_id = (IF g = unknown THEN None ELSE g)}

\* the texts of the segments of group g, in input order
GroupTexts(g) ==
    LET segments == SelectSeq(events_transcription,
                              LAMBDA seg : seg.speaker_id = (IF g = unknown THEN None ELSE g))
    IN [i \in 1..Len(segments) |-> segments[i].text]

\* texts put one after the other with one blank between two neighbours
JoinedBySpaces(texts) ==
    Flatten([i \in 1..Len(texts) |-> IF i = 1 THEN texts[i] ELSE <<" ">> \o texts[i]])

\* trimmed is text without the blanks at its two ends
TrimOf(trimmed, text) ==
    /\ trimmed = <<>> \/ (Head(trimmed) # " " /\ trimmed[Len(trimmed)] # " ")
    /\ \E lead \in 0..Len(text) :
           /\ lead + Len(trimmed) <= Len(text)
           /\ SubSeq(text, lead + 1, lead + Len(trimmed)) = trimmed
           /\ \A i \in 1..Len(text) :
                  (i <= lead \/ i > lead + Len(trimmed)) => text[i] = " "

\* event e has the timing and the speaker segments of group g
GroupTimingAndSpeakers(e, g) ==
    /\ \E i \in Members(g) : e.start_time = events_transcription[i].start_time
    /\ \A i \in Members(g) : e.start_time <= events_transcription[i].start_time
    /\ \E i \in Members(g) : e.end_time = events_transcription[i].end_time
    /\ \A i \in Members(g) : e.end_time >= events_transcription[i].end_time
    /\ e.speaker_segments =
           SelectSeq(events_diarization, LAMBDA seg : seg.speaker_id = g)

\* there is one event per group and no other event
OneEventPerGroup ==
    /\ Len(events_out) = Cardinality(InputGroups)
    /\ \A g \in InputGroups :
           Cardinality({k \in 1..Len(events_out) : events_out[k].speaker_id = g}) = 1

\* C21 as the specification words it: one event per speaker group, its
\* text the group's texts joined by single blanks, its times the least start
\* and the greatest end of the group, its speaker segments the diarization
\* segments of that speaker; no segment, no event
C21_OneEventPerGroup_joined ==
    events_pc = "done" =>
        /\ OneEventPerGroup
        /\ \A k \in 1..Len(events_out) :
               LET e == events_out[k]
               IN /\ e.text = JoinedBySpaces(GroupTexts(e.speaker_id))
                  /\ GroupTimingAndSpeakers(e, e.speaker_id)
        /\ events_transcription = <<>> => events_out = <<>>

\* C21: one event per speaker group, its text the group's texts joined by
\* single blanks and then trimmed of the blanks at its two ends, its times
\* the least start and the greatest end of the group, its speaker segments
\* the diarization segments of that speaker; no segment, no event
C21_OneEventPerGroup ==
    events_pc = "done" =>
        /\ OneEventPerGroup
        /\ \A k \in 1..Len(events_out) :
               LET e == events_out[k]
               IN /\ TrimOf(e.text, JoinedBySpaces(GroupTexts(e.speaker_id)))
                  /\ GroupTimingAndSpeakers(e, e.speaker_id)
        /\ events_transcription = <<>> => events_out = <<>>

\* C21 happens: three segments in two groups, the unknown group among them,
\* a group whose first text is empty, a group with a later segment that
\* starts first
C21_Witness ==
    /\ events_pc = "done"
    /\ Len(events_transcription) = 3
    /\ Len(events_out) = 2
    /\ \E k \in 1..2 : events_out[k].speaker_id = unknown
    /\ \E k \in 1..2 :
           /\ Cardinality(Members(events_out[k].speaker_id)) = 2
           /\ events_out[k].speaker_segments # <<>>
           /\ events_out[k].text = <<"a">>
           /\ events_transcription[2].start_time < events_transcription[1].start_time

(* ------------------------------------------------------------------ *)
(* Properties of the chunk accumulator                                 *)
(* ------------------------------------------------------------------ *)

\* a chunk is accepted in this step
Accepted == chunks_made' = chunks_made + 1

\* the chunk accepted in this step: the last of the buffer, or of the
\* window just queued when the buffer is left empty
AcceptedChunk ==
    IF audio_buffer' # <<>>
    THEN audio_buffer'[Len(audio_buffer')]
    ELSE LET window == processing_queue'[Len(processing_queue')].chunks
         IN window[Len(window)]

\* the seconds of audio in a list of chunks
AudioIn(chunks) == SumSeq([i \in 1..Len(chunks) |-> chunks[i].duration])

\* every window in the queue holds the minimum of audio
QueuedWindowsLongEnough ==
    \A i \in 1..Len(processing_queue) :
        ~processing_queue[i].none =>
            AudioIn(processing_queue[i].chunks) >= min_audio_duration

\* C23: an accepted chunk goes to the end of the buffer; if then the chunk
\* is at least process_interval later than the last dispatch and the buffer
\* holds at least min_audio_duration, the buffer goes to the queue as one
\* window, is emptied, and the chunk's time is the last dispatch; if not,
\* the buffer has grown by the chunk and queue and last dispatch are as
\* they were.  Every queued window holds at least min_audio_duration
C23_AcceptDispatchesWhenDue ==
    [][/\ Accepted =>
              LET chunk == AcceptedChunk
                  grown == Append(audio_buffer, chunk)
              IN IF /\ chunk.timestamp - last_processing_time >= process_interval
                    /\ AudioIn(grown) >= min_audio_duration
                 THEN /\ processing_queue' = Append(processing_queue, QueueItem(grown))
                      /\ audio_buffer' = <<>>
                      /\ last_processing_time' = chunk.timestamp
                 ELSE /\ audio_buffer' = grown
                      /\ UNCHANGED <<processing_queue, last_processing_time>>
       /\ QueuedWindowsLongEnough']_vars

\* C23 happens: a window of two chunks, neither long enough alone, is in
\* the queue, and a chunk that came too soon after it waits in the buffer
C23_Witness ==
    /\ \E i \in 1..Len(processing_queue) :
           /\ Len(processing_queue[i].chunks) = 2
           /\ processing_queue[i].chunks[1].duration < min_audio_duration
    /\ audio_buffer # <<>>
    /\ audio_buffer[1].timestamp - last_processing_time < process_interval

\* every segment given to the synthesizer ends no earlier than it starts
SegmentsWellTimed ==
    \A i \in 1..Len(events_transcription) :
        events_transcription[i].start_time <= events_transcription[i].end_time

\* C24: of segments that each end no earlier than they start, the
\* synthesizer makes events that each end no earlier than they start
C24_EventStartBeforeEnd ==
    (events_pc = "done" /\ SegmentsWellTimed) =>
        \A k \in 1..Len(events_out) : events_out[k].start_time <= events_out[k].end_time

\* C24 happens: an event of no length, from one segment of no length, and
\* an event of two segments of which the one listed second starts first
C24_Witness ==
    /\ events_pc = "done"
    /\ SegmentsWellTimed
    /\ Len(events_transcription) = 3
    /\ \E k \in 1..Len(events_out) : events_out[k].start_time = events_out[k].end_time
    /\ \E k \in 1..Len(events_out) :
           /\ events_out[k].end_time - events_out[k].start_time = process_interval
           /\ \E i, j \in 1..3 :
                  /\ i < j
                  /\ events_transcription[i].speaker_id = events_out[k].speaker_id
                  /\ events_transcription[j].speaker_id = events_out[k].speaker_id
                  /\ events_transcription[j].start_time < events_transcription[i].start_time

(* ------------------------------------------------------------------ *)
(* Properties of process_audio_file                                    *)
(* ------------------------------------------------------------------ *)

\* the streaming path and the session: everything but the callers' own
\* positions, results and jobs, and the capture clock
StreamingState ==
    <<is_initialized, is_processing, session_id, processing_queue, processing_tasks,
      audio_buffer, last_processing_time, recorder_is_recording, worker_pc,
      [w \in Workers |-> job[w]], sink>>

\* what the synthesizer can make of a file
FileEvents == {BatchEvents(<<>>, scenario, session_id) : scenario \in ScenarioIds}

\* C25: process_audio_file() on a processor that is not initialized raises
\* at once; otherwise it starts Diarize and Transcribe, once each, and
\* waits; it returns the synthesized events when both have succeeded and
\* raises when one has failed; and no step of it touches the queue, the
\* buffer, the workers, the session flags and id, or the sink
C25_ProcessFileBypassesStreaming ==
    [][\A c \in Callers :
          /\ (caller_pc[c] = "idle" /\ caller_pc'[c] = "process_file") =>
                 /\ is_initialized
                 /\ job[c] = NoJob
                 /\ job'[c].diar = "run" /\ job'[c].trans = "run"
                 /\ UNCHANGED StreamingState
          /\ (caller_pc[c] = "idle" /\ Returns(c, "process_audio_file")) =>
                 /\ ~is_initialized
                 /\ result'[c].outcome = "error"
                 /\ UNCHANGED <<StreamingState, job>>
          /\ (caller_pc[c] = "process_file" /\ job'[c] # job[c]) =>
                 /\ UNCHANGED StreamingState
                 /\ job[c].diar = "ok" => job'[c].diar # "run"
                 /\ job[c].trans = "ok" => job'[c].trans # "run"
                 /\ IF caller_pc'[c] = "process_file"
                    THEN \/ job[c].diar = "run" /\ job' = [job EXCEPT ![c].diar = "ok"]
                         \/ job[c].trans = "run" /\ job' = [job EXCEPT ![c].trans = "ok"]
                    ELSE /\ Returns(c, "process_audio_file")
                         /\ job'[c] = NoJob
                         /\ result'[c].outcome \in {"ok", "error"}
                         /\ result'[c].outcome = "ok" =>
                                /\ "ok" \in {job[c].diar, job[c].trans}
                                /\ result'[c].events \in FileEvents
                         /\ result'[c].outcome = "error" => result'[c].events = <<>>
          /\ (caller_pc[c] = "process_file" /\ caller_pc'[c] # "process_file") =>
                 /\ job'[c] # job[c]
                 /\ \/ result'[c].outcome = "ok"
                    \/ "run" \in {job[c].diar, job[c].trans}]_vars

\* C25 happens: a file has been processed into events while a recording was
\* going on with a window waiting in the queue, and the window is still there
C25_Witness ==
    \E c \in Callers :
        /\ caller_pc[c] = "idle"
        /\ result[c].op = "process_audio_file"
        /\ result[c].outcome = "ok"
        /\ result[c].events # <<>>
        /\ is_processing
        /\ processing_queue # <<>>
        /\ sink = {}

(* ------------------------------------------------------------------ *)
(* Window processing with the tasks a raising gather leaves behind     *)
(* ------------------------------------------------------------------ *)

\* One capability task of p's job ends.  When it raises while its sibling
\* still runs, gather raises in the caller at once and does not cancel the
\* sibling: the worker goes on, the sibling's executor call runs to its end
CapabilityEndLeaving(p, cap, ok) ==
    /\ CapabilityDone(p, cap, ok)
    /\ IF p \in Workers /\ ~ok /\ job[p][OtherCapability(cap)] = "run"
       THEN /\ left_running[p][OtherCapability(cap)] < MaxLeftRunning
            /\ left_running' =
                   [left_running EXCEPT ![p][OtherCapability(cap)] = @ + 1]
       ELSE UNCHANGED left_running
    /\ UNCHANGED <<merge_vars, align_vars, ipc_vars, events_vars, host_vars>>

\* a task left behind ends; nobody awaits it
LeftRunningEnd(w, cap) ==
    /\ LoopFree
    /\ left_running[w][cap] > 0
    /\ left_running' = [left_running EXCEPT ![w][cap] = @ - 1]
    /\ UNCHANGED <<pipe_vars, merge_vars, align_vars, ipc_vars, events_vars, host_vars>>

NextBarrier ==
    \/ \E duration \in Durations : AudioCallback(duration)
    \/ \E w \in Workers : WorkerGet(w)
    \/ \E p \in Procs, ok \in BOOLEAN : CapabilityEndLeaving(p, "diar", ok)
    \/ \E p \in Procs, ok \in BOOLEAN : CapabilityEndLeaving(p, "trans", ok)
    \/ \E w \in Workers, cap \in {"diar", "trans"} : LeftRunningEnd(w, cap)
    \/ \E c \in Callers : Initialize(c)
    \/ \E c \in Callers, ok \in BOOLEAN : InitializeEnd(c, ok)
    \/ \E c \in Callers, opened \in BOOLEAN : StartRecording(c, opened)
    \/ \E c \in Callers : StartRecordingEnd(c)
    \/ \E c \in Callers : StopRecording(c)
    \/ \E c \in Callers : StopJoin(c)

SpecBarrier == Init /\ [][NextBarrier]_vars

\* the calls of capability cap that run on behalf of worker w
InFlight(w, cap) == (IF job[w][cap] = "run" THEN 1 ELSE 0) + left_running[w][cap]

\* C26: a worker that is processing a window has no capability call of an
\* earlier window still running, and no worker ever has two calls of one
\* capability running
C26_JoinBarrier ==
    \A w \in Workers, cap \in {"diar", "trans"} :
        /\ worker_pc[w] = "process" => left_running[w][cap] = 0
        /\ InFlight(w, cap) <= 1

(* ------------------------------------------------------------------ *)
(* Window processing with a result callback that can raise             *)
(* ------------------------------------------------------------------ *)

\* The second capability task of worker w's window succeeds, the events
\* are built, and "for event in audio_events: self._result_callback(event)"
\* raises in its k-th call: the events before the k-th have been handed
\* over, "except Exception" logs, the worker is back at the queue
CallbackRaises(w, cap, k) ==
    LET j == job[w]
        events == BatchEvents(j.chunks, j.scenario, session_id)
    IN /\ LoopFree
       /\ j[cap] = "run"
       /\ j[OtherCapability(cap)] = "ok"
       /\ k \in 1..Len(events)
       /\ sink' = sink \cup {Batch(w, j, TRUE, SubSeq(events, 1, k - 1))}
       /\ job' = [job EXCEPT ![w] = NoJob]
       /\ worker_pc' = [worker_pc EXCEPT ![w] = AfterFailure(TRUE)]
       /\ UNCHANGED <<is_initialized, is_processing, session_id, processing_queue,
                      processing_tasks, audio_buffer, last_processing_time,
                      recorder_is_recording, chunk_counter, chunks_made,
                      caller_pc, in_cleanup, result>>
       /\ UNCHANGED <<merge_vars, align_vars, ipc_vars, events_vars, task_vars, host_vars>>

\* the most events a window has: one per speaker, one for the segments
\* without a speaker
MaxBatch == Cardinality(Speakers \cup {unknown})

NextCallback ==
    \/ \E duration \in Durations : AudioCallback(duration)
    \/ \E w \in Workers : WorkerGet(w)
    \/ \E p \in Procs, ok \in BOOLEAN : DiarizeEnd(p, ok)
    \/ \E p \in Procs, ok \in BOOLEAN : TranscribeEnd(p, ok)
    \/ \E w \in Workers, cap \in {"diar", "trans"}, k \in 1..MaxBatch :
           CallbackRaises(w, cap, k)
    \/ \E c \in Callers : Initialize(c)
    \/ \E c \in Callers, ok \in BOOLEAN : InitializeEnd(c, ok)
    \/ \E c \in Callers, opened \in BOOLEAN : StartRecording(c, opened)
    \/ \E c \in Callers : StartRecordingEnd(c)
    \/ \E c \in Callers : StopRecording(c)
    \/ \E c \in Callers : StopJoin(c)

SpecCallback == Init /\ [][NextCallback]_vars

\* C27: a window whose processing has raised has no event in the sink
C27_AllOrNothing ==
    \A b \in sink : b.outcome = "failed" => b.events = <<>>

(* ------------------------------------------------------------------ *)
(* Properties of the worker pool over a session                        *)
(* ------------------------------------------------------------------ *)

\* stop_recording() has put the stop signals on the queue and waits
SignalIssued == \E c \in Callers : caller_pc[c] = "stop_join"

\* while the processor is recording and no stop signal is out, the task
\* list holds max_concurrent_processing tasks, all different and all in
\* their loop, and no other worker is
PoolComplete ==
    (is_processing /\ ~SignalIssued) =>
        /\ Len(processing_tasks) = max_concurrent_processing
        /\ \A i, j \in 1..Len(processing_tasks) :
               i # j => processing_tasks[i] # processing_tasks[j]
        /\ WorkersLooping = {processing_tasks[i] : i \in 1..Len(processing_tasks)}
        /\ Cardinality(WorkersLooping) = max_concurrent_processing

\* C28: whenever the processor is recording, before the stop signal is
\* out, exactly max_concurrent_processing workers are in their loop, after
\* the first start_recording() as after any later one; a worker leaves its
\* loop only once the signal is out, whatever windows have failed
C28_PoolOfNWorkers ==
    [][/\ PoolComplete'
       /\ \A c \in Callers :
              (Returns(c, "start_recording") /\ result'[c].outcome = "ok") =>
                  is_processing' /\ ~SignalIssued'
       /\ Leavers # {} => SignalIssued]_vars

\* C28 happens: a second recording of the session is on, both workers are
\* in their loop, and a window has failed
C28_Witness ==
    /\ is_processing
    /\ ~SignalIssued
    /\ \E c \in Callers : result[c].op = "start_recording" /\ result[c].outcome = "ok"
    /\ chunk_counter < chunks_made
    /\ \E b \in sink : b.outcome = "failed" /\ b.worker_id \in Workers
    /\ \E w \in Workers : worker_pc[w] = "process"

(* ------------------------------------------------------------------ *)
(* Properties of the order of the processing queue                     *)
(* ------------------------------------------------------------------ *)

\* the windows waiting in a queue
WindowsIn(q) == {q[i].chunks : i \in {j \in 1..Len(q) : ~q[j].none}}

\* the accumulator pushed window a before window b: the recorder stamps
\* its chunks in the order it delivers them
PushedBefore(a, b) == a[1].timestamp < b[1].timestamp

\* the workers that start on a window in this step
Starters == {w \in Workers : worker_pc[w] = "get" /\ worker_pc'[w] = "process"}

\* C29: the processing queue is first in, first out. A worker that starts
\* on a window starts on one that was waiting, and every window still
\* waiting was pushed after it; a worker takes a stop signal only when no
\* window is waiting any more
C29_QueueIsFifo ==
    [][/\ \A w \in Starters :
              /\ job'[w].chunks \in WindowsIn(processing_queue)
              /\ \A later \in WindowsIn(processing_queue') :
                     PushedBefore(job'[w].chunks, later)
       /\ Leavers # {} => WindowsIn(processing_queue') = {}]_vars

\* C29 happens: a worker is on a window while a later window waits in
\* front of the stop signals
C29_Witness ==
    /\ \E w \in Workers :
           /\ worker_pc[w] = "process"
           /\ \E later \in WindowsIn(processing_queue) : PushedBefore(job[w].chunks, later)
    /\ \E i \in 1..Len(processing_queue) : processing_queue[i].none

(* ------------------------------------------------------------------ *)
(* Properties of who changes the session state                         *)
(* ------------------------------------------------------------------ *)

\* the initialized flag, the recording flag and the session id
SessionFlagsAndId == <<is_initialized, is_processing, session_id>>

ControllerOps == {"initialize", "start_recording", "stop_recording", "cleanup"}

\* a call of initialize, start_recording, stop_recording or cleanup starts,
\* goes on or returns in this step
ControllerStep ==
    \E c \in Callers :
        /\ caller_pc'[c] # caller_pc[c] \/ result'[c] # result[c]
        /\ "process_file" \notin {caller_pc[c], caller_pc'[c]}
        /\ result'[c].op \in ControllerOps \cup {"none"}

\* a worker takes an item, or ends a window and calls the sink
WorkerStep ==
    \E w \in Workers : worker_pc[w] \in {"get", "process"} /\ worker_pc'[w] # worker_pc[w]

\* events go to the sink in a step that is no step of a controller call
SinkCalled == sink' # sink /\ caller_pc' = caller_pc

\* a PROCESS_AUDIO request is handled
RequestHandled == total_processed' # total_processed \/ last_error' # last_error

\* C30: the initialized flag, the recording flag and the session id change
\* only in a step of initialize, start_recording, stop_recording or
\* cleanup; a chunk arriving, a step of a worker, the events of a window
\* being made and sent to the sink, an audio request and a status request
\* leave all three as they are
C30_OnlyControllerChangesSession ==
    [][/\ SessionFlagsAndId' # SessionFlagsAndId => ControllerStep
       /\ (Accepted \/ WorkerStep \/ SinkCalled \/ RequestHandled \/ StatusSent)
              => SessionFlagsAndId' = SessionFlagsAndId]_vars

\* C30 happens: during a recording of an initialized session a worker has
\* sent the events of a window to the sink, an audio request has been
\* handled and a status has been sent
C30_Witness ==
    /\ is_initialized /\ is_processing /\ session_id # 0
    /\ chunks_made > 0
    /\ \E b \in sink : b.outcome = "delivered" /\ b.events # <<>> /\ b.worker_id = ""
                       /\ b.chunks # IpcChunks
    /\ total_processed > 0
    /\ status.sent

(* ------------------------------------------------------------------ *)
(* Properties of merge: coverage and the input                         *)
(* ------------------------------------------------------------------ *)

\* segment seg lies within output segment out of the same speaker
LiesWithin(seg, out) ==
    /\ out.speaker_id = seg.speaker_id
    /\ out.start_time <= seg.start_time
    /\ seg.end_time <= out.end_time

\* two output segments are further apart than the tolerance
Apart(a, b, tolerance) ==
    \/ a.end_time + tolerance < b.start_time
    \/ b.end_time + tolerance < a.start_time

\* what a call of merge on segments_in that returned segments_out must
\* have kept
MergeKeeps(segments_in, segments_after, segments_out, tolerance) ==
    /\ \A i \in 1..Len(segments_in) :
           \E j \in 1..Len(segments_out) : LiesWithin(segments_in[i], segments_out[j])
    /\ \A j, k \in 1..Len(segments_out) :
           (j # k /\ segments_out[j].speaker_id = segments_out[k].speaker_id)
               => Apart(segments_out[j], segments_out[k], tolerance)
    /\ Len(segments_out) <= Len(segments_in)
    /\ segments_after = segments_in

\* C39: for a tolerance of 0 or more, every input segment lies within one
\* output segment of its speaker, two output segments of one speaker are
\* further apart than the tolerance, the output is no longer than the
\* input, and the input list is after the call what it was before
C39_MergeKeepsCoverageAndInput ==
    [][/\ (merge_pc = "in" /\ merge_pc' = "merged")
              => MergeKeeps(merge_in, merge_in', merged', merge_tolerance)
       /\ (merge_pc = "merged" /\ merge_pc' = "remerged")
              => MergeKeeps(merged, merged', remerged', merge_tolerance)]_vars

\* C39 happens: a list that is not in start order, with two segments of one
\* speaker that merge and a third that stays apart, has been merged
C39_Witness ==
    /\ merge_pc = "merged"
    /\ merge_tolerance >= 0
    /\ Len(merge_in) = MaxMergeSegs
    /\ \E i \in 1..(Len(merge_in) - 1) : merge_in[i].start_time > merge_in[i + 1].start_time
    /\ Len(merged) = Len(merge_in) - 1
    /\ \E j, k \in 1..Len(merged) : j # k /\ merged[j].speaker_id = merged[k].speaker_id

(* ------------------------------------------------------------------ *)
(* Properties of the chunks of a recording                             *)
(* ------------------------------------------------------------------ *)

\* the places of window w where the chunk stamped t is
PlacesIn(w, t) == {i \in 1..Len(w) : w[i].timestamp = t}

\* how often the chunk stamped t is in a window: one waiting in the queue,
\* one a worker or the final flush is on, one that has ended at the sink
TimesInWindows(t) ==
    Cardinality({p \in (1..Len(processing_queue)) \X (1..MaxChunks) :
                     p[2] \in PlacesIn(processing_queue[p[1]].chunks, t)})
    + Cardinality({p \in Procs \X (1..MaxChunks) : p[2] \in PlacesIn(job[p[1]].chunks, t)})
    + Cardinality({p \in sink \X (1..MaxChunks) : p[2] \in PlacesIn(p[1].chunks, t)})

\* the windows there are, and the buffer
AllWindows ==
    {processing_queue[i].chunks : i \in 1..Len(processing_queue)}
        \cup {job[p].chunks : p \in Procs} \cup {b.chunks : b \in sink}

\* the chunks of w are in the order the recorder delivered them, none
\* left out
InAcceptedOrder(w) ==
    \A i \in 1..(Len(w) - 1) :
        \E k \in 1..(MaxChunks - 1) :
            w[i].timestamp = ChunkTime(k) /\ w[i + 1].timestamp = ChunkTime(k + 1)

StopHasReturned ==
    \E c \in Callers : result[c].op = "stop_recording" /\ caller_pc[c] = "idle"

\* C32: with a queue that takes every window, every chunk the recorder has
\* delivered is either still in the buffer or in exactly one window, never
\* in both and never in two windows; every window and the buffer hold their
\* chunks in the order of delivery; and once stop_recording() has returned
\* the buffer is empty, so every chunk is in exactly one window
C32_ChunkConservation ==
    /\ ~QueueFull(processing_queue)
    /\ \A k \in 1..chunks_made :
           TimesInWindows(ChunkTime(k))
               + Cardinality(PlacesIn(audio_buffer, ChunkTime(k))) = 1
    /\ \A w \in AllWindows \cup {audio_buffer} : InAcceptedOrder(w)
    /\ StopHasReturned =>
           /\ audio_buffer = <<>>
           /\ \A k \in 1..chunks_made : TimesInWindows(ChunkTime(k)) = 1

\* C32 happens: stop_recording() has returned on a recording whose chunks
\* went into two windows, one of them of more than one chunk
C32_Witness ==
    /\ StopHasReturned
    /\ chunks_made = MaxChunks
    /\ \E a, b \in sink :
           /\ a # b
           /\ Len(a.chunks) > 1
           /\ b.chunks # <<>>

(* ------------------------------------------------------------------ *)
(* The sink of the IPC handler: _on_audio_event and _send_message      *)
(* ------------------------------------------------------------------ *)

\* create_audio_event_message for event k of batch b; the window is kept
\* beside the event to tell the batches apart
AudioEventMessage(b, k) == [type |-> "AUDIO_EVENT", window |-> b.chunks, event |-> b.events[k]]

\* "for event in audio_events: self._result_callback(event)": one
\* _send_message task per event of the batches handed over, created in
\* the order of the calls
CallbackTasks(batches) ==
    IF batches = {} THEN <<>>
    ELSE LET b == CHOOSE only \in batches : TRUE
         IN [k \in 1..Len(b.events) |-> AudioEventMessage(b, k)]

\* the mutant of TasksAfterCallbacks: the first task of a batch runs ahead
\* of the tasks already waiting
TasksAfterCallbacks_first_ahead(tasks, new) ==
    IF new = <<>> THEN tasks ELSE <<Head(new)>> \o tasks \o Tail(new)

\* asyncio.create_task(self._send_message(message)): the loop runs the
\* tasks in the order they were created
TasksAfterCallbacks(tasks, new) == tasks \o new

\* a capability ends in a recording whose sink is _on_audio_event
CapabilityEndSending(p, cap, ok) ==
    /\ CapabilityDone(p, cap, ok)
    /\ send_tasks' = TasksAfterCallbacks(send_tasks, CallbackTasks(sink' \ sink))
    /\ UNCHANGED <<stdin, lines_written, loop_pc, is_running, handled, sent>>
    /\ UNCHANGED <<merge_vars, align_vars, ipc_vars, events_vars, task_vars>>

\* the oldest _send_message task runs: one line goes to stdout
SendMessage ==
    /\ LoopFree
    /\ send_tasks # <<>>
    /\ sent' = Append(sent, Head(send_tasks))
    /\ send_tasks' = Tail(send_tasks)
    /\ UNCHANGED <<stdin, lines_written, loop_pc, is_running, handled>>
    /\ UNCHANGED <<pipe_vars, merge_vars, align_vars, ipc_vars, events_vars, task_vars>>

NextSend ==
    \/ \E duration \in Durations : AudioCallback(duration)
    \/ \E w \in Workers : WorkerGet(w)
    \/ \E p \in Procs, cap \in {"diar", "trans"}, ok \in BOOLEAN :
           CapabilityEndSending(p, cap, ok)
    \/ SendMessage
    \/ \E c \in Callers : Initialize(c)
    \/ \E c \in Callers, ok \in BOOLEAN : InitializeEnd(c, ok)
    \/ \E c \in Callers, opened \in BOOLEAN : StartRecording(c, opened)
    \/ \E c \in Callers : StartRecordingEnd(c)
    \/ \E c \in Callers : StopRecording(c)
    \/ \E c \in Callers : StopJoin(c)

SpecSend == Init /\ [][NextSend]_vars

\* the events in the order the sink was given them: those written, then
\* those whose task still waits
Delivery == sent \o send_tasks

\* C35: the events of one window reach the sink as one run: between two
\* events of a window there is no event of another window, however the
\* workers and the final flush of stop_recording() take their turns
C35_BatchesDoNotInterleave ==
    \A i, j, k \in 1..Len(Delivery) :
        (i < j /\ j < k /\ Delivery[i].window = Delivery[k].window)
            => Delivery[j].window = Delivery[i].window

\* C35 happens: the events of two windows have been written, one of the
\* windows with more than one event
C35_Witness ==
    \E i, j, k \in 1..Len(sent) :
        /\ i # j
        /\ sent[i].window = sent[j].window
        /\ sent[k].window # sent[i].window

(* ------------------------------------------------------------------ *)
(* IPCHandler._message_loop beside a recording                         *)
(* ------------------------------------------------------------------ *)

\* the types with an entry in _message_handlers
HandledTypes == {"INIT", "SHUTDOWN", "PING", "PROCESS_AUDIO", "UPDATE_CONFIG", "GET_STATUS"}

\* what a line can be: a message of a type with a handler, a message of a
\* type without one, a line that does not parse, or the end of the file
LineKinds == HandledTypes \cup {"AUDIO_EVENT", "unparsable", "EOF"}

\* message.timestamp of the n-th line
MessageTime(n) == n * 10

\* the one-chunk list _handle_process_audio builds from request m
RequestChunks(m) ==
    <<[chunk_id |-> 0, timestamp |-> MessageTime(m.id), duration |-> min_audio_duration]>>

\* create_error_message, create_status_message, create_pong_message: the
\* type, what the error is, and the line that is answered
ErrorMessage(error_type, m) == [type |-> "ERROR", error_type |-> error_type, re |-> m.id]
ReplyMessage(type, m) == [type |-> type, error_type |-> "", re |-> m.id]

\* main(): processor.initialize() has returned, IPCHandler(processor).start()
\* has set the flag and is at its first readline
LoopInit ==
    /\ is_initialized = TRUE
    /\ is_processing = FALSE
    /\ session_id = 1
    /\ processing_queue = <<>>
    /\ processing_tasks = <<>>
    /\ audio_buffer = <<>>
    /\ last_processing_time = 0
    /\ recorder_is_recording = FALSE
    /\ chunk_counter = 0
    /\ chunks_made = 0
    /\ worker_pc = [w \in Workers |-> "none"]
    /\ caller_pc = [c \in AllCallers |-> "idle"]
    /\ in_cleanup = [c \in AllCallers |-> FALSE]
    /\ job = [p \in Procs |-> NoJob]
    /\ sink = {}
    /\ result = [c \in AllCallers |-> IF c \in Callers
                                     THEN [op |-> "initialize", outcome |-> "ok", events |-> <<>>]
                                     ELSE NoResult]
    /\ MergeIdle
    /\ AlignIdle
    /\ IpcIdle
    /\ EventsIdle
    /\ TasksIdle
    /\ stdin = <<>>
    /\ lines_written = 0
    /\ loop_pc = "read"
    /\ is_running = TRUE
    /\ handled = <<>>
    /\ send_tasks = <<>>
    /\ sent = <<>>

\* the host has closed its end of the pipe
HostClosed ==
    \/ \E i \in 1..Len(stdin) : stdin[i].kind = "EOF"
    \/ \E i \in 1..Len(handled) : handled[i].kind = "EOF"

\* the host writes a line, or closes the pipe
HostWrites(kind) ==
    /\ lines_written < MaxLines
    /\ ~HostClosed
    /\ lines_written' = lines_written + 1
    /\ stdin' = Append(stdin, [id |-> lines_written + 1, kind |-> kind])
    /\ UNCHANGED <<loop_pc, is_running, handled, send_tasks, sent>>
    /\ UNCHANGED <<pipe_vars, merge_vars, align_vars, ipc_vars, events_vars, task_vars>>

\* "while self._is_running: line = await readline()" has a line of this
\* kind; the loop takes it up, and the parse or the handler raises or not
Reads(kind, raised) ==
    /\ IpcLoopFree
    /\ loop_pc = "read"
    /\ is_running
    /\ stdin # <<>>
    /\ Head(stdin).kind = kind
    /\ stdin' = Tail(stdin)
    /\ handled' = Append(handled, [id |-> Head(stdin).id, kind |-> kind, raised |-> raised])
    /\ UNCHANGED lines_written

\* the mutant of BackToRead: an error ends the loop
BackToRead_error_ends_loop(answers) ==
    /\ sent' = sent \o answers
    /\ IF \E i \in 1..Len(answers) : answers[i].type = "ERROR"
       THEN is_running' = FALSE /\ loop_pc' = "stopped"
       ELSE UNCHANGED <<loop_pc, is_running>>

\* the handler has returned, or what it raised has been answered: the loop
\* is back at readline
BackToRead(answers) ==
    /\ sent' = sent \o answers
    /\ UNCHANGED <<loop_pc, is_running>>

\* "if not line: break", and the finally of start()
ReadEof ==
    /\ Reads("EOF", FALSE)
    /\ loop_pc' = "stopped"
    /\ is_running' = FALSE
    /\ UNCHANGED <<send_tasks, sent>>
    /\ UNCHANGED <<pipe_vars, merge_vars, align_vars, ipc_vars, events_vars, task_vars>>

\* IPCMessage.from_json or msgpack.unpackb raises: the except of the loop
\* body answers MESSAGE_PROCESSING_ERROR
ReadUnparsable ==
    /\ Reads("unparsable", TRUE)
    /\ BackToRead(<<ErrorMessage("MESSAGE_PROCESSING_ERROR", Head(stdin))>>)
    /\ UNCHANGED send_tasks
    /\ UNCHANGED <<pipe_vars, merge_vars, align_vars, ipc_vars, events_vars, task_vars>>

\* _handle_message finds no handler and logs a warning
ReadUnhandled ==
    /\ Reads("AUDIO_EVENT", FALSE)
    /\ BackToRead(<<>>)
    /\ UNCHANGED send_tasks
    /\ UNCHANGED <<pipe_vars, merge_vars, align_vars, ipc_vars, events_vars, task_vars>>

\* _handle_ping and _handle_get_status have no try of their own: what
\* they raise is answered by _handle_message with HANDLER_ERROR
HandleUnprotected(kind, reply, ok) ==
    /\ Reads(kind, ~ok)
    /\ BackToRead(IF ok THEN <<ReplyMessage(reply, Head(stdin))>>
                  ELSE <<ErrorMessage("HANDLER_ERROR", Head(stdin))>>)
    /\ UNCHANGED send_tasks
    /\ UNCHANGED <<pipe_vars, merge_vars, align_vars, ipc_vars, events_vars, task_vars>>

HandlePing(ok) == HandleUnprotected("PING", "PONG", ok)

HandleStatusRequest(ok) == HandleUnprotected("GET_STATUS", "STATUS", ok)

\* _handle_update_config answers what it raises itself
HandleUpdateConfig(ok) ==
    /\ Reads("UPDATE_CONFIG", FALSE)
    /\ BackToRead(IF ok THEN <<ReplyMessage("STATUS", Head(stdin))>>
                  ELSE <<ErrorMessage("CONFIG_UPDATE_ERROR", Head(stdin))>>)
    /\ UNCHANGED send_tasks
    /\ UNCHANGED <<pipe_vars, merge_vars, align_vars, ipc_vars, events_vars, task_vars>>

\* _handle_init: the processor main() has initialized returns at its
\* guard, and the status is sent
HandleInit ==
    /\ Reads("INIT", FALSE)
    /\ is_initialized
    /\ InitializeBody("main")
    /\ BackToRead(<<ReplyMessage("STATUS", Head(stdin))>>)
    /\ UNCHANGED send_tasks
    /\ UNCHANGED <<merge_vars, align_vars, ipc_vars, events_vars, task_vars>>

\* the mutant of ProcessAudioChunksResult: the events are returned as well
ProcessAudioChunksResult_events(events) == events

\* "events = await self.audio_processor._process_audio_chunks(...)":
\* the coroutine returns None on every path, "for event in events or []"
\* has nothing to send
ProcessAudioChunksResult(events) == <<>>

\* the responses _handle_process_audio sends itself for request m
DirectResponses(m, events) ==
    LET b == [chunks |-> RequestChunks(m), events |-> ProcessAudioChunksResult(events)]
    IN [k \in 1..Len(b.events) |-> AudioEventMessage(b, k)]

\* _handle_process_audio for a line of the loop: an unsupported format is
\* answered with AUDIO_PROCESSING_ERROR; otherwise _process_audio_chunks
\* runs as "ipc-request", hands its events to _on_audio_event or logs the
\* failure of a model, and the handler sends what it got back
HandleProcessAudioLine(format_ok, failed) ==
    LET m == Head(stdin)
        j == [chunks |-> RequestChunks(m), scenario |-> ScenarioOf(RequestChunks(m))]
        events == IF failed THEN <<>> ELSE BatchEvents(j.chunks, j.scenario, session_id)
        b == Batch("ipc-request", j, failed, events)
    IN /\ Reads("PROCESS_AUDIO", FALSE)
       /\ IF format_ok
          THEN /\ total_processed' = total_processed + 1
               /\ sink' = sink \cup {b}
               /\ send_tasks' = TasksAfterCallbacks(send_tasks, CallbackTasks({b}))
               /\ BackToRead(DirectResponses(m, events))
               /\ UNCHANGED last_error
          ELSE /\ last_error' = "Unsupported audio format"
               /\ BackToRead(<<ErrorMessage("AUDIO_PROCESSING_ERROR", m)>>)
               /\ UNCHANGED <<total_processed, sink, send_tasks>>
       /\ session_id' = SessionIdAfterRequest(session_id)
       /\ UNCHANGED <<is_initialized, is_processing, processing_queue,
                      processing_tasks, audio_buffer, last_processing_time,
                      recorder_is_recording, chunk_counter, chunks_made, worker_pc,
                      caller_pc, in_cleanup, job, result, status>>
       /\ UNCHANGED <<merge_vars, align_vars, events_vars, task_vars>>

\* _handle_shutdown: "await self.audio_processor.cleanup()" begins
HandleShutdown ==
    /\ Reads("SHUTDOWN", FALSE)
    /\ CleanupBody("main")
    /\ loop_pc' = "shutdown"
    /\ UNCHANGED <<is_running, send_tasks, sent>>
    /\ UNCHANGED <<merge_vars, align_vars, ipc_vars, events_vars, task_vars>>

\* cleanup() has returned: "self._is_running = False", and the loop ends
\* at its while
HandleShutdownEnd(released) ==
    /\ loop_pc = "shutdown"
    /\ CleanupEndBody("main", released)
    /\ is_running' = FALSE
    /\ loop_pc' = "stopped"
    /\ UNCHANGED <<stdin, lines_written, handled, send_tasks, sent>>
    /\ UNCHANGED <<merge_vars, align_vars, ipc_vars, events_vars, task_vars>>

\* cleanup() raises what the recorder raised when its stream was stopped:
\* the except of _handle_shutdown logs it, the assignment to _is_running
\* has been skipped, and the loop reads on
HandleShutdownRaises ==
    /\ Reads("SHUTDOWN", FALSE)
    /\ RecorderStopRaisesBody("main", "cleanup")
    /\ BackToRead(<<>>)
    /\ UNCHANGED send_tasks
    /\ UNCHANGED <<merge_vars, align_vars, ipc_vars, events_vars, task_vars>>

NextLoop ==
    \/ \E kind \in LineKinds : HostWrites(kind)
    \/ ReadEof
    \/ ReadUnparsable
    \/ ReadUnhandled
    \/ \E ok \in BOOLEAN : HandlePing(ok)
    \/ \E ok \in BOOLEAN : HandleStatusRequest(ok)
    \/ \E ok \in BOOLEAN : HandleUpdateConfig(ok)
    \/ HandleInit
    \/ \E format_ok, failed \in BOOLEAN : HandleProcessAudioLine(format_ok, failed)
    \/ HandleShutdown
    \/ \E released \in BOOLEAN : HandleShutdownEnd(released)
    \/ HandleShutdownRaises
    \/ SendMessage
    \/ \E c \in Callers, opened \in BOOLEAN : StartRecording(c, opened)
    \/ \E c \in Callers : StartRecordingEnd(c)
    \/ \E w \in Workers : WorkerGet(w)
    \/ \E c \in Callers : StopJoin(c)

SpecLoop == LoopInit /\ [][NextLoop]_vars

(* ------------------------------------------------------------------ *)
(* Properties of the message loop                                      *)
(* ------------------------------------------------------------------ *)

\* the handling of the i-th line taken up is over
HandlingOver(i) == i < Len(handled) \/ loop_pc # "shutdown"

\* C31: once a SHUTDOWN message has been handled the processor is neither
\* recording nor initialized, the handler is no longer running, and no
\* line after the SHUTDOWN is taken up
C31_ShutdownStopsHandler ==
    \A i \in 1..Len(handled) :
        (handled[i].kind = "SHUTDOWN" /\ HandlingOver(i)) =>
            /\ ~is_processing
            /\ ~is_initialized
            /\ ~is_running
            /\ i = Len(handled)

\* the ERROR messages written or waiting that answer line n
ErrorsFor(n) ==
    {i \in 1..Len(Delivery) : Delivery[i].type = "ERROR" /\ Delivery[i].re = n}

\* the loop has ended
LoopOver == loop_pc = "stopped" \/ ~is_running

\* the loop takes up a line in this step
TakesUp == handled' # handled

\* C38: a line that does not parse, or whose handler raises, is answered
\* with one ERROR message and no line with more than one; neither ends the
\* loop, which ends only at the end of the file or at a SHUTDOWN; the lines
\* are taken up in the order the host wrote them, none left out, and a line
\* is taken up only when the handling of the line before is over
C38_ErrorsDoNotStopLoop ==
    [][/\ \A i \in 1..Len(handled') :
              /\ handled'[i].id = i
              /\ Cardinality(ErrorsFor(i)') <= 1
              /\ handled'[i].raised => Cardinality(ErrorsFor(i)') = 1
       /\ LoopOver' => handled'[Len(handled')].kind \in {"EOF", "SHUTDOWN"}
       /\ TakesUp =>
              /\ loop_pc = "read" /\ is_running
              /\ handled' = Append(handled, handled'[Len(handled')])
              /\ handled'[Len(handled')].id = Head(stdin).id
              /\ \A c \in Callers : caller_pc[c] = "idle"]_vars

\* C38 happens: a line that did not parse and a line whose handler raised
\* have been answered, and a later line has been handled
C38_Witness ==
    /\ Len(handled) = MaxLines
    /\ handled[1].kind = "unparsable"
    /\ handled[2].kind \in {"PING", "GET_STATUS"} /\ handled[2].raised
    /\ handled[3].kind = "PROCESS_AUDIO"
    /\ \E i \in 1..Len(sent) : sent[i].type = "AUDIO_EVENT"
    /\ loop_pc = "read" /\ is_running

\* the places in the delivery order of the AUDIO_EVENT messages of window w
EventPlaces(w) ==
    {i \in 1..Len(Delivery) : Delivery[i].type = "AUDIO_EVENT" /\ Delivery[i].window = w}

\* the batches of the PROCESS_AUDIO requests handled so far
RequestBatches ==
    {b \in sink : \E i \in 1..Len(handled) :
                      handled[i].kind = "PROCESS_AUDIO" /\ b.chunks = RequestChunks(handled[i])}

MaxMarkers == 2

\* a further stop may put its markers
MarkersFit == Len(processing_queue) + Len(processing_tasks) <= MaxMarkers

\* stop_recording() called by either task
OverlapStop(c) == MarkersFit /\ StopRecording(c)

\* cleanup() called by either task
OverlapCleanup(c) == MarkersFit /\ Cleanup(c)

\* The pipeline with a second caller: each call runs to its next await,
\* where a call of the other task can begin or go on
NextOverlap ==
    \/ \E duration \in Durations : AudioCallback(duration)
    \/ \E w \in Workers : WorkerGet(w)
    \/ \E p \in Procs, ok \in BOOLEAN : DiarizeEnd(p, ok)
    \/ \E p \in Procs, ok \in BOOLEAN : TranscribeEnd(p, ok)
    \/ \E c \in AllCallers : Initialize(c)
    \/ \E c \in AllCallers, ok \in BOOLEAN : InitializeEnd(c, ok)
    \/ \E c \in AllCallers, opened \in BOOLEAN : StartRecording(c, opened)
    \/ \E c \in AllCallers : StartRecordingEnd(c)
    \/ \E c \in AllCallers : OverlapStop(c)
    \/ \E c \in AllCallers : StopJoin(c)
    \/ \E c \in AllCallers : OverlapCleanup(c)
    \/ \E c \in AllCallers, released \in BOOLEAN : CleanupEnd(c, released)

SpecOverlap == Init /\ [][NextOverlap]_vars

\* a stop_recording() call, made directly or by cleanup(), has begun and
\* has not returned
StopInProgress == \E c \in AllCallers : caller_pc[c] \in {"stop_final", "stop_join"}

\* a start_recording() call has opened the stream and not yet set the flag
StartInProgress == \E c \in AllCallers : caller_pc[c] = "start_recording"

\* C33: whenever the session is not recording and no StopRecording is in
\* progress, the dispatch queue is empty: it holds neither an unprocessed
\* window nor a leftover shutdown marker, also after StopRecording or
\* Cleanup calls that overlap at their suspension points
C33_QueueEmptyWhenIdle ==
    (~is_processing /\ ~StopInProgress /\ ~StartInProgress) => processing_queue = <<>>

\* C34: in every reachable state a recording session is an initialized
\* one, under any interleaving of Initialize, StartRecording, StopRecording
\* and Cleanup at their suspension points
C34_RecordingImpliesInitialized == is_processing => is_initialized

(* ------------------------------------------------------------------ *)
(* Progress of the pool and of stop_recording()                        *)
(* ------------------------------------------------------------------ *)

\* What the event loop and the models are taken to do: a task that can run
\* is run (the loop's ready queue is first in, first out), every Diarize
\* and Transcribe call ends, and a coroutine between two awaits runs on
LiveFairness ==
    /\ \A w \in Workers : WF_vars(WorkerGet(w))
    /\ \A p \in Procs : WF_vars(\E ok \in BOOLEAN : DiarizeEnd(p, ok))
    /\ \A p \in Procs : WF_vars(\E ok \in BOOLEAN : TranscribeEnd(p, ok))
    /\ \A c \in Callers : WF_vars(StartRecordingEnd(c))
    /\ \A c \in Callers : WF_vars(StopJoin(c))

SpecLive == Init /\ [][Next]_vars /\ LiveFairness

\* the window that the n-th chunk of the run completed
IsWindowOf(chunks, n) ==
    chunks # <<>> /\ chunks[Len(chunks)].timestamp = ChunkTime(n)

\* that window waits in the dispatch queue
Queued(n) == \E x \in WindowsIn(processing_queue) : IsWindowOf(x, n)

\* that window has left the queue and its _process_audio_chunks call is
\* over: its events went to the callback, or its failure was logged
Finished(n) ==
    /\ ~Queued(n)
    /\ \A p \in Procs : ~IsWindowOf(job[p].chunks, n)
    /\ \E b \in sink : IsWindowOf(b.chunks, n) /\ b.outcome \in {"delivered", "failed"}

\* the stop_recording() call of c has begun and has not returned
Stopping(c) == caller_pc[c] \in {"stop_final", "stop_join"}

\* C36: while the session is recording with its workers, every window
\* pushed onto the dispatch queue is eventually dequeued and its processing
\* eventually finishes (events delivered or failure logged), and a
\* StopRecording call eventually returns, given that every Diarize and
\* Transcribe call terminates and the workers are scheduled fairly
C36_WindowsFinishAndStopReturns ==
    /\ \A n \in 1..MaxChunks : (is_processing /\ Queued(n)) ~> Finished(n)
    /\ \A c \in Callers : Stopping(c) ~> ~Stopping(c)

\* a stop has returned after the pool delivered a window and logged the
\* failure of another
C36_Witness ==
    /\ caller_pc["main"] = "idle"
    /\ result["main"].op = "stop_recording"
    /\ result["main"].outcome = "ok"
    /\ \E b \in sink : b.outcome = "failed" /\ b.worker_id \in Workers
    /\ \E b \in sink : b.outcome = "delivered" /\ b.chunks # <<>>

====
